---------------------------- MODULE Spec2Model ----------------------------
(***************************************************************************)
(* Model of the workout calculators of runnote-function:                   *)
(*   findRepeatingPattern, roundToStandardDistance and                     *)
(*   calculateRepetitionStructure (services/workoutCalculations.ts, the    *)
(*   version built on findRepeatingPattern);                               *)
(*   formatPace, calculateRunMetrics, calculateTempoBlockMetrics and       *)
(*   calculateIntervalMetrics (services/workoutCalculations.ts);           *)
(*   analyzeWorkout (services/workoutAnalysis.ts, both versions);          *)
(*   formatWorkoutSummary and applyRunNoteToDescription                    *)
(*   (utils/activityFormatter.ts);                                         *)
(*   the Strava webhook handler with withTokenRetry                        *)
(*   (functions/webhook.ts, shared/ai.ts);                                 *)
(*   saveState, validateAndConsumeState and the authCallback handler       *)
(*   (shared/ai.ts and the authCallback version that checks the state);    *)
(*   preDetectEasyRun (the pre-detection before the model is asked).       *)
(*                                                                         *)
(* Numbers.  JavaScript numbers are modelled exactly: a distance is a      *)
(* rational num/den of metres, a speed is an integer count of hundredths   *)
(* of a m/s.  Every comparison of the source is carried out on the         *)
(* cross-multiplied integers, so no rounding is introduced by the model.   *)
(***************************************************************************)
EXTENDS Integers, Sequences, FiniteSets, TLC

VARIABLES
    \* ---- findRepeatingPattern ----
    arr,        \* the argument of findRepeatingPattern
    found,      \* its return value (Null for null), NotRun before the call
    prev,       \* the return value of the call before a partial tail was appended
    ppc,        \* "idle" | "start" | "found" | "appended"
    \* ---- roundToStandardDistance ----
    meters,     \* the argument, as a rational [num, den]
    rounded,    \* the return value, NotRun before the call
    divZero,    \* TRUE iff the call evaluated a division whose denominator is 0
    roundedAgain, \* the return value for the return value, NotRun before
    rpc,        \* "idle" | "start" | "rounded" | "again"
    \* ---- calculateRepetitionStructure ----
    laps,       \* params.laps
    workLaps,               \* the three index lists of the lap scan (0-based)
    regularRecoveryLaps,
    betweenSetRecoveryLaps,
    outcome,    \* NotRun | [kind |-> "throw", ...] | [kind |-> "return", ...]
    cpc,        \* "idle" | "start" | "done"
    \* ---- analyzeWorkout ----
    activityIn, \* the argument: aggregate stats and, if there are any, laps
    version,    \* "paceZone" | "repetition": which analyzeWorkout runs
    requests,   \* requests sent to the external model by this call
    calculationResult,  \* the local of that name, Null for null
    analysis,   \* NotRun | Return(result) | Throw(message)
    firstAnalysis,      \* "none", or the type returned ("throw" if none was)
                        \* by an earlier call on the same activity
    apc,        \* "idle" | "start" | "awaiting" | "done"
    \* ---- the calculators, formatPace and formatWorkoutSummary ----
    calcCall,   \* the calculator called and its arguments
    metricsOut, \* its return value
    formatIn,   \* the WorkoutAnalysisResult given to formatWorkoutSummary
    summaryOut, \* its return value
    paceIn,     \* the argument of formatPace
    paceOut,    \* its return value
    fpc,        \* "idle" | "start" | "calculated" | "formatted"
    \* ---- applyRunNoteToDescription ----
    description,    \* the existing description: Null or Text(characters)
    summaryText,    \* the summary argument, a sequence of characters
    updated,        \* the return value, NotRun before the call
    summary2,       \* the summary of a second call on the text returned
    replaced,       \* the return value of that second call
    direct,         \* the return value for description and summary2
    dpc,        \* "idle" | "start" | "applied" | "reapplied" | "replaced"
    \* ---- the webhook handler (POST) and withTokenRetry ----
    req,            \* the body of the request
    tokenTable,     \* the athlete's row in the token table, Null if none
    tokenRec,       \* rec, the token row the handler holds
    act,            \* the description of the activity fetched
    llmSummary,     \* the summary returned by getRunNoteSummaryFromOpenAI
    nextDescription,    \* next, the description to write
    stravaDescription,  \* the description of the activity at Strava
    retry,          \* the invocation of withTokenRetry under way, or the last
    response,       \* what the handler returned, NotRun before
    wpc,        \* "idle" | "start" | "ensure" | "get" | "llm" | "put" | "done"
    \* ---- the OAuth state table and authCallback ----
    stateTable,     \* the row of the state token: Null or [timestamp]
    clock,          \* Date.now()
    callbacks,      \* the authCallback requests, by number
    opc,        \* "idle" | "unsaved" | "saved"
    \* ---- preDetectEasyRun ----
    preActivity,    \* the activity argument
    preDetection,   \* the PreDetectionResult returned, NotRun before
    qpc         \* "idle" | "start" | "detected"

patVars   == <<arr, found, prev, ppc>>
roundVars == <<meters, rounded, divZero, roundedAgain, rpc>>
repVars   == <<laps, workLaps, regularRecoveryLaps, betweenSetRecoveryLaps,
              outcome, cpc>>
analyzeVars == <<activityIn, version, requests, calculationResult, analysis,
                 firstAnalysis, apc>>
fmtVars   == <<calcCall, metricsOut, formatIn, summaryOut, paceIn, paceOut, fpc>>
descVars  == <<description, summaryText, updated, summary2, replaced, direct,
               dpc>>
hookVars  == <<req, tokenTable, tokenRec, act, llmSummary, nextDescription,
               stravaDescription, retry, response, wpc>>
oauthVars == <<stateTable, clock, callbacks, opc>>
preVars   == <<preActivity, preDetection, qpc>>
serviceVars == <<hookVars, oauthVars, preVars>>
laterVars == <<analyzeVars, fmtVars, descVars, serviceVars>>
vars      == <<patVars, roundVars, repVars, analyzeVars, fmtVars, descVars,
               serviceVars>>

Null   == [kind |-> "null"]
Throw(msg) == [kind |-> "throw", message |-> msg]
NotRun == [kind |-> "notrun"]

Min(a, b) == IF a < b THEN a ELSE b
Abs(a)    == IF a < 0 THEN -a ELSE a

\* All sequences over S of length 0..n
SeqUpTo(S, n) == UNION {[1..k -> S] : k \in 0..n}

(***************************************************************************)
(* Array helpers with JavaScript's semantics (0-based, end exclusive,      *)
(* clamped to the array).                                                  *)
(***************************************************************************)
slice(a, from, to) == SubSeq(a, from + 1, Min(to, Len(a)))

RECURSIVE JoinComma(_)
JoinComma(a) ==
    IF Len(a) = 0 THEN ""
    ELSE IF Len(a) = 1 THEN ToString(a[1])
    ELSE ToString(a[1]) \o "," \o JoinComma(Tail(a))

\* JSON.stringify of an array of (integer) numbers: "[200,400]"
JSON_stringify(a) == "[" \o JoinComma(a) \o "]"

(***************************************************************************)
(* findRepeatingPattern                                                    *)
(***************************************************************************)

\* the comparison of a full segment with the pattern
SegmentMatches_FirstOnly(segment, pattern) == segment[1] = pattern[1]
SegmentMatches(segment, pattern) ==
    JSON_stringify(segment) = JSON_stringify(pattern)

\* the comparison of the final, shorter segment with the start of the pattern
PartialMatches_Never(segment, pattern) == FALSE
PartialMatches(segment, pattern) ==
    LET partialPattern == slice(pattern, 0, Len(segment))
    IN  ~(JSON_stringify(segment) # JSON_stringify(partialPattern))

\* the inner loop: for (let i = 0; i < arr.length; i += len), from index i
RECURSIVE ScanSegments(_, _, _, _)
ScanSegments(a, len, i, fullSets) ==
    LET pattern == slice(a, 0, len)
        segment == slice(a, i, i + len)
    IN  IF ~(i < Len(a)) THEN [isValidPattern |-> TRUE, fullSets |-> fullSets]
        ELSE IF Len(segment) = len
             THEN IF SegmentMatches(segment, pattern)
                  THEN ScanSegments(a, len, i + len, fullSets + 1)
                  ELSE [isValidPattern |-> FALSE, fullSets |-> fullSets]
             ELSE IF Len(segment) > 0
                  THEN [isValidPattern |-> PartialMatches(segment, pattern),
                        fullSets |-> fullSets]
                  ELSE ScanSegments(a, len, i + len, fullSets)

\* the acceptance test after the inner loop
MinFullSets == 2
Accepts(scan) == scan.isValidPattern /\ scan.fullSets >= MinFullSets

\* the largest pattern length tried
MaxPatternLen(a) == Len(a) \div 2

\* the outer loop: for (let len = 1; len <= floor(arr.length / 2); len++)
RECURSIVE TryLengthsFrom(_, _)
TryLengthsFrom(a, len) ==
    IF ~(len <= MaxPatternLen(a)) THEN Null
    ELSE LET scan == ScanSegments(a, len, 0, 0)
         IN  IF Accepts(scan)
             THEN [kind |-> "pattern", pattern |-> slice(a, 0, len),
                   sets |-> scan.fullSets]
             ELSE TryLengthsFrom(a, len + 1)

\* (a variant that tries the longest pattern first)
RECURSIVE TryLengthsDownFrom(_, _)
TryLengthsDownFrom(a, len) ==
    IF len < 1 THEN Null
    ELSE LET scan == ScanSegments(a, len, 0, 0)
         IN  IF Accepts(scan)
             THEN [kind |-> "pattern", pattern |-> slice(a, 0, len),
                   sets |-> scan.fullSets]
             ELSE TryLengthsDownFrom(a, len - 1)

findRepeatingPattern_LongestFirst(a) == TryLengthsDownFrom(a, MaxPatternLen(a))
findRepeatingPattern(a) == TryLengthsFrom(a, 1)


(***************************************************************************)
(* roundToStandardDistance.  The argument is the rational m.num / m.den    *)
(* (m.den > 0, m.num >= 0); the result is a whole number of metres.        *)
(***************************************************************************)
Q(n, d)  == [num |-> n, den |-> d]
Whole(n) == Q(n, 1)

standards == <<100, 200, 300, 400, 600, 800, 1000, 1200, 1600>>

\* Math.abs(meters - std), times m.den
DiffTimesDen(m, std) == Abs(m.num - std * m.den)

\* if (diff < minDiff)
Closer_OrEqual(diff, minDiff) == diff <= minDiff
Closer(diff, minDiff) == diff < minDiff

\* for (const std of standards) { ... }, from index k (1-based) with the
\* closest standard found so far
RECURSIVE ClosestFrom(_, _, _)
ClosestFrom(m, k, closest) ==
    IF k > Len(standards) THEN closest
    ELSE IF Closer(DiffTimesDen(m, standards[k]), DiffTimesDen(m, closest))
         THEN ClosestFrom(m, k + 1, standards[k])
         ELSE ClosestFrom(m, k + 1, closest)

ClosestStandard(m) == ClosestFrom(m, 1, standards[1])

\* minDiff / meters < 0.15.  minDiff / meters = DiffTimesDen / m.num.  With
\* meters = 0 the quotient is Infinity (minDiff is 100), and the test is false.
TolerancePercent == 15
WithinTolerance(m, closest) ==
    IF m.num = 0 THEN FALSE
    ELSE DiffTimesDen(m, closest) * 100 < TolerancePercent * m.num

\* Math.round(x) for x = n / d >= 0: floor(x + 1/2)
MathRound(n, d) == (2 * n + d) \div (2 * d)

\* Math.round(meters / 100) * 100
RoundToHundred_ToTen(m) == MathRound(m.num, 10 * m.den) * 10
RoundToHundred(m) == MathRound(m.num, 100 * m.den) * 100

roundToStandardDistance(m) ==
    LET closest == ClosestStandard(m)
    IN  IF WithinTolerance(m, closest) THEN closest ELSE RoundToHundred(m)

\* TRUE iff the call evaluates a division whose denominator is zero: the only
\* divisions are minDiff / meters (always evaluated) and meters / 100
DividesByZero(m) == m.num = 0

(***************************************************************************)
(* calculateRepetitionStructure.  A lap is [distance, average_speed]:      *)
(* distance a rational of metres, average_speed in hundredths of a m/s     *)
(* (moving_time is not read by this function).  Lap indices are 0-based,   *)
(* as in the source.                                                       *)
(***************************************************************************)
Lap(cm, speed) == [distance |-> Q(cm, 100), average_speed |-> speed]

\* comparisons of a rational distance with a whole number of metres
DistGE(d, n) == d.num >= n * d.den
DistLE(d, n) == d.num <= n * d.den
DistGT(d, n) == d.num > n * d.den

WorkMinSpeed       == 430    \* 4.3 m/s
RecoveryMaxSpeed   == 350    \* 3.5 m/s
WorkMinDistance    == 180
WorkMaxDistance    == 600
RecoveryMinDistance == 150
RecoveryMaxDistance == 600
BetweenSetMinDistance == 600
BetweenSetMaxDistance == 2000
CooldownLaps       == 3

\* lap.average_speed > 4.3 && lap.distance >= 180 && lap.distance <= 600
IsWorkLap_SpeedOnly(lap) == lap.average_speed > WorkMinSpeed
IsWorkLap(lap) ==
    /\ lap.average_speed > WorkMinSpeed
    /\ DistGE(lap.distance, WorkMinDistance)
    /\ DistLE(lap.distance, WorkMaxDistance)

\* lap.average_speed < 3.5 && lap.distance >= 150 && lap.distance <= 600
IsRegularRecoveryLap_NoMinimum(lap) ==
    /\ lap.average_speed < RecoveryMaxSpeed
    /\ DistLE(lap.distance, RecoveryMaxDistance)
IsRegularRecoveryLap(lap) ==
    /\ lap.average_speed < RecoveryMaxSpeed
    /\ DistGE(lap.distance, RecoveryMinDistance)
    /\ DistLE(lap.distance, RecoveryMaxDistance)

\* the condition of the third branch: slow, long, not first, not in the last 3
IsBetweenSetCandidate_AnyPosition(ls, i) ==
    LET lap == ls[i + 1]
    IN  /\ lap.average_speed < RecoveryMaxSpeed
        /\ DistGT(lap.distance, BetweenSetMinDistance)
        /\ DistLE(lap.distance, BetweenSetMaxDistance)
IsBetweenSetCandidate(ls, i) ==
    LET lap == ls[i + 1]
    IN  /\ lap.average_speed < RecoveryMaxSpeed
        /\ DistGT(lap.distance, BetweenSetMinDistance)
        /\ DistLE(lap.distance, BetweenSetMaxDistance)
        /\ i > 0
        /\ i < Len(ls) - CooldownLaps

\* workLaps.some(idx => idx < i)
hasWorkBefore(work, i) == \E k \in 1..Len(work) : work[k] < i

\* laps.slice(i + 1).some(lap => work lap criteria)
hasWorkAfter(ls, i) ==
    LET rest == slice(ls, i + 1, Len(ls))
    IN  \E k \in 1..Len(rest) : IsWorkLap(rest[k])

NoLists == [work |-> <<>>, regular |-> <<>>, between |-> <<>>]

\* for (let i = 0; i < laps.length; i++) { ... }, from index i
RECURSIVE ScanLaps(_, _, _)
ScanLaps(ls, i, lists) ==
    IF ~(i < Len(ls)) THEN lists
    ELSE LET lap == ls[i + 1]
         IN  IF IsWorkLap(lap)
             THEN ScanLaps(ls, i + 1, [lists EXCEPT !.work = Append(@, i)])
             ELSE IF IsRegularRecoveryLap(lap)
             THEN ScanLaps(ls, i + 1, [lists EXCEPT !.regular = Append(@, i)])
             ELSE IF IsBetweenSetCandidate(ls, i)
             THEN IF hasWorkBefore(lists.work, i) /\ hasWorkAfter(ls, i)
                  THEN ScanLaps(ls, i + 1, [lists EXCEPT !.between = Append(@, i)])
                  ELSE ScanLaps(ls, i + 1, lists)
             ELSE ScanLaps(ls, i + 1, lists)

ClassifyLaps(ls) == ScanLaps(ls, 0, NoLists)

\* idxs.map(idx => roundToStandardDistance(laps[idx].distance))
RoundedDistances(ls, idxs) ==
    [k \in 1..Len(idxs) |-> roundToStandardDistance(ls[idxs[k] + 1].distance)]

RECURSIVE Sum(_)
Sum(a) == IF Len(a) = 0 THEN 0 ELSE a[1] + Sum(Tail(a))

\* a value of type number | number[]
Num(n)     == [number |-> n]
Arr(a)     == [array |-> a]
IsArray(v) == "array" \in DOMAIN v

\* Math.round(total / sets)
RepsPerSet_Undivided(total, sets) == total
RepsPerSet(total, sets) == MathRound(total, sets)

\* the set count of a mixed pattern: the between-set markers if there are any,
\* else the repetitions of the pattern
LadderSets_BetweenOnly(betweenCount, patternSets) == betweenCount + 1
LadderSets(betweenCount, patternSets) ==
    IF betweenCount > 0 THEN betweenCount + 1 ELSE patternSets

\* the sets / reps / work distance decision (source lines 277-330)
SetsAndReps(workCount, betweenCount, workDistances, workPattern) ==
    IF workPattern # Null
    THEN IF Len(workPattern.pattern) = 1
         THEN IF betweenCount > 0
              THEN [sets |-> betweenCount + 1,
                    reps_per_set |-> RepsPerSet(workPattern.sets, betweenCount + 1),
                    work |-> Num(workPattern.pattern[1])]
              ELSE [sets |-> 1,
                    reps_per_set |-> workPattern.sets,
                    work |-> Num(workPattern.pattern[1])]
         ELSE [sets |-> LadderSets(betweenCount, workPattern.sets),
               reps_per_set |-> Len(workPattern.pattern),
               work |-> Arr(workPattern.pattern)]
    ELSE LET avgWorkDist == Q(Sum(workDistances), Len(workDistances))
         IN  IF betweenCount > 0
             THEN [sets |-> betweenCount + 1,
                   reps_per_set |-> RepsPerSet(workCount, betweenCount + 1),
                   work |-> Num(roundToStandardDistance(avgWorkDist))]
             ELSE [sets |-> 1,
                   reps_per_set |-> workCount,
                   work |-> Num(roundToStandardDistance(avgWorkDist))]

\* the recovery distance decision (source lines 332-346)
RecoveryDistance_MeanFirst(recoveryDistances, recoveryPattern, workDistance) ==
    IF Len(recoveryDistances) > 0
    THEN Num(roundToStandardDistance(
                 Q(Sum(recoveryDistances), Len(recoveryDistances))))
    ELSE IF IsArray(workDistance) THEN Num(workDistance.array[1])
         ELSE workDistance
RecoveryDistance(recoveryDistances, recoveryPattern, workDistance) ==
    IF recoveryPattern # Null /\ Len(recoveryPattern.pattern) > 1
    THEN Arr(recoveryPattern.pattern)
    ELSE IF Len(recoveryDistances) > 0
    THEN Num(roundToStandardDistance(
                 Q(Sum(recoveryDistances), Len(recoveryDistances))))
    ELSE IF IsArray(workDistance) THEN Num(workDistance.array[1])
         ELSE workDistance

calculateRepetitionStructure(ls) ==
    IF Len(ls) = 0
    THEN Throw("calculateRepetitionStructure: No laps provided")
    ELSE
    LET lists == ClassifyLaps(ls)
    IN  IF Len(lists.work) = 0
        THEN Throw("calculateRepetitionStructure: No work laps found")
        ELSE
        LET workDistances     == RoundedDistances(ls, lists.work)
            recoveryDistances == RoundedDistances(ls, lists.regular)
            betweenSetRecovery ==
                IF Len(lists.between) > 0
                THEN roundToStandardDistance(ls[lists.between[1] + 1].distance)
                ELSE 0
            workPattern     == findRepeatingPattern(workDistances)
            recoveryPattern == findRepeatingPattern(recoveryDistances)
            sr == SetsAndReps(Len(lists.work), Len(lists.between),
                              workDistances, workPattern)
        IN  [kind |-> "return",
             sets |-> sr.sets,
             reps_per_set |-> sr.reps_per_set,
             work_distance_meters |-> sr.work,
             recovery_distance_meters |->
                 RecoveryDistance(recoveryDistances, recoveryPattern, sr.work),
             between_set_recovery_distance_meters |-> betweenSetRecovery]

(***************************************************************************)
(* JavaScript numbers of the metrics calculators.  A finite number is an   *)
(* exact rational [num, den] in lowest terms (only non-negative values     *)
(* occur); a division by zero gives Infinity, 0 / 0 gives NaN.             *)
(***************************************************************************)
Infinity == [kind |-> "Infinity"]
NaN      == [kind |-> "NaN"]

IsFinite(x) == x # Infinity /\ x # NaN

RECURSIVE Gcd(_, _)
Gcd(a, b) == IF b = 0 THEN a ELSE Gcd(b, a % b)

\* n / d in lowest terms
R(n, d) == LET g == Gcd(n, d) IN Q(n \div g, d \div g)

\* a + b of finite numbers
JsAdd(a, b) ==
    LET g == Gcd(a.den, b.den)
    IN  R(a.num * (b.den \div g) + b.num * (a.den \div g),
          (a.den \div g) * b.den)

\* a / b
JsDiv(a, b) ==
    IF a = NaN \/ b = NaN THEN NaN
    ELSE IF a = Infinity THEN (IF b = Infinity THEN NaN ELSE Infinity)
    ELSE IF b = Infinity THEN Whole(0)
    ELSE IF b.num = 0 THEN (IF a.num = 0 THEN NaN ELSE Infinity)
    ELSE IF a.num = 0 THEN Whole(0)
    ELSE LET gn == Gcd(a.num, b.num)
             gd == Gcd(a.den, b.den)
         IN  R((a.num \div gn) * (b.den \div gd),
               (a.den \div gd) * (b.num \div gn))

\* a >= b
JsGE(a, b) ==
    IF a = NaN \/ b = NaN THEN FALSE
    ELSE IF a = Infinity THEN TRUE
    ELSE IF b = Infinity THEN FALSE
    ELSE a.num * b.den >= b.num * a.den

\* Math.round(x), Math.floor(x)
Math_round(x) == IF IsFinite(x) THEN Whole(MathRound(x.num, x.den)) ELSE x
Math_floor(x) == IF IsFinite(x) THEN Whole(x.num \div x.den) ELSE x

\* x % 60
Mod60(x) ==
    IF IsFinite(x)
    THEN R(x.num - 60 * (x.num \div (60 * x.den)) * x.den, x.den)
    ELSE NaN

\* String(x) of an integer-valued number, of Infinity and of NaN
NumberToString(x) == IF IsFinite(x) THEN ToString(x.num) ELSE x.kind

\* s.padStart(2, '0')
padStart2(s) == IF Len(s) < 2 THEN "0" \o s ELSE s

\* x.toFixed(1): the closest number with one decimal, the larger of two
toFixed1(x) ==
    IF IsFinite(x)
    THEN LET n == MathRound(10 * x.num, x.den)
         IN  ToString(n \div 10) \o "." \o ToString(n % 10)
    ELSE x.kind

(***************************************************************************)
(* formatPace and the metrics calculators                                  *)
(***************************************************************************)
formatPace(secondsPerMile) ==
    LET minutes == Math_floor(JsDiv(secondsPerMile, Whole(60)))
        seconds == Math_round(Mod60(secondsPerMile))
    IN  NumberToString(minutes) \o ":" \o padStart2(NumberToString(seconds))

MetersPerMile == R(1609344, 1000)

calculateRunMetrics(params) ==
    LET distanceMiles  == JsDiv(params.distance_meters, MetersPerMile)
        secondsPerMile == JsDiv(params.moving_time_seconds, distanceMiles)
    IN  [distance_miles        |-> distanceMiles,
         pace_seconds_per_mile |-> secondsPerMile,
         average_heartrate     |-> Math_round(params.average_heartrate)]

\* a lap as the calculators read it
TimedLap(cm, seconds, hr) ==
    [distance |-> R(cm, 100), moving_time |-> Whole(seconds),
     average_heartrate |-> Whole(hr)]

\* params.laps.reduce((sum, lap) => sum + lap[field], 0)
RECURSIVE SumOf(_, _)
SumOf(ls, field) ==
    IF Len(ls) = 0 THEN Whole(0)
    ELSE JsAdd(SumOf(SubSeq(ls, 1, Len(ls) - 1), field), ls[Len(ls)][field])

\* Math.round(sum of the heart rates / params.laps.length)
AverageHeartrate(ls) ==
    Math_round(JsDiv(SumOf(ls, "average_heartrate"), Whole(Len(ls))))

calculateTempoBlockMetrics_ShortMile(ls) ==
    LET totalDistance  == SumOf(ls, "distance")
        totalTime      == SumOf(ls, "moving_time")
        distanceMiles  == JsDiv(totalDistance, R(160934, 100))
        secondsPerMile == JsDiv(totalTime, distanceMiles)
    IN  [distance_miles        |-> distanceMiles,
         pace_seconds_per_mile |-> secondsPerMile,
         average_heartrate     |-> AverageHeartrate(ls)]
calculateTempoBlockMetrics(ls) ==
    LET totalDistance  == SumOf(ls, "distance")
        totalTime      == SumOf(ls, "moving_time")
        distanceMiles  == JsDiv(totalDistance, MetersPerMile)
        secondsPerMile == JsDiv(totalTime, distanceMiles)
    IN  [distance_miles        |-> distanceMiles,
         pace_seconds_per_mile |-> secondsPerMile,
         average_heartrate     |-> AverageHeartrate(ls)]

calculateIntervalMetrics(ls) ==
    LET individualPacesSeconds ==
            [k \in 1..Len(ls) |->
                JsDiv(ls[k].moving_time, JsDiv(ls[k].distance, MetersPerMile))]
        avgDistance == JsDiv(SumOf(ls, "distance"), Whole(Len(ls)))
    IN  [interval_count              |-> Len(ls),
         distance_per_interval_miles |-> JsDiv(avgDistance, MetersPerMile),
         individual_paces_seconds    |-> individualPacesSeconds,
         average_heartrate           |-> AverageHeartrate(ls)]

(***************************************************************************)
(* formatWorkoutSummary (utils/activityFormatter.ts).  A field that a      *)
(* WorkoutAnalysisResult does not carry is Null.                           *)
(***************************************************************************)
WorkoutResult(type, structure, metrics, interval_metrics, repetition_metrics) ==
    [type |-> type, structure |-> structure, metrics |-> metrics,
     interval_metrics |-> interval_metrics,
     repetition_metrics |-> repetition_metrics]

\* `${d}` of a number | number[]: an array is joined by commas
DistanceToString(d) ==
    IF IsArray(d) THEN JoinComma(d.array) ELSE ToString(d.number)

\* paces.map((pace) => formatPace(pace)).join(', ')
RECURSIVE FormattedPaces(_)
FormattedPaces(paces) ==
    IF Len(paces) = 0 THEN ""
    ELSE IF Len(paces) = 1 THEN formatPace(paces[1])
    ELSE formatPace(paces[1]) \o ", " \o FormattedPaces(Tail(paces))

RepetitionSummary_AlwaysBetweenSet(rm) ==
    LET workDist == DistanceToString(rm.work_distance_meters) \o "m"
        recDist  == DistanceToString(rm.recovery_distance_meters) \o "m"
    IN  IF rm.sets = 1
        THEN ToString(rm.reps_per_set) \o " x " \o workDist \o " R w/"
                 \o recDist \o " jog"
        ELSE ToString(rm.sets) \o " x(" \o ToString(rm.reps_per_set) \o " x "
                 \o workDist \o " R w/" \o recDist \o " jog) w/"
                 \o ToString(rm.between_set_recovery_distance_meters)
                 \o "m jog"
RepetitionSummary(rm) ==
    LET workDist == DistanceToString(rm.work_distance_meters) \o "m"
        recDist  == DistanceToString(rm.recovery_distance_meters) \o "m"
    IN  IF rm.sets = 1
        THEN ToString(rm.reps_per_set) \o " x " \o workDist \o " R w/"
                 \o recDist \o " jog"
        ELSE LET betweenSetDist ==
                     IF rm.between_set_recovery_distance_meters > 0
                     THEN ToString(rm.between_set_recovery_distance_meters)
                              \o "m"
                     ELSE recDist
             IN  ToString(rm.sets) \o " x(" \o ToString(rm.reps_per_set)
                     \o " x " \o workDist \o " R w/" \o recDist \o " jog) w/"
                     \o betweenSetDist \o " jog"

IntervalSummary(type, im) ==
    LET distance ==
            IF IsFinite(im.distance_per_interval_miles)
               /\ ~JsGE(im.distance_per_interval_miles, Whole(1))
            THEN toFixed1(im.distance_per_interval_miles) \o " mi"
            ELSE NumberToString(Math_round(im.distance_per_interval_miles))
                     \o " mi"
    IN  type \o " " \o ToString(im.interval_count) \o " x " \o distance
            \o " @ " \o FormattedPaces(im.individual_paces_seconds)

ContinuousSummary(type, structure, metrics) ==
    LET distance ==
            IF JsGE(metrics.distance_miles, Whole(10))
            THEN NumberToString(Math_round(metrics.distance_miles)) \o " mi"
            ELSE toFixed1(metrics.distance_miles) \o " mi"
        pace == formatPace(metrics.pace_seconds_per_mile)
        hr   == Math_round(metrics.average_heartrate)
    IN  IF type = "T" /\ structure = "continuous"
        THEN type \o " " \o distance \o " @ avg " \o pace \o "/mi"
        ELSE type \o " " \o distance \o " @ " \o pace \o "/mi (HR "
                 \o NumberToString(hr) \o ")"

formatWorkoutSummary(result) ==
    IF result.repetition_metrics # Null
    THEN RepetitionSummary(result.repetition_metrics)
    ELSE IF result.interval_metrics # Null
    THEN IntervalSummary(result.type, result.interval_metrics)
    ELSE IF result.metrics # Null
    THEN ContinuousSummary(result.type, result.structure, result.metrics)
    ELSE result.type \o " run"

\* metrics that are not continuous metrics (the record of another
\* calculator) have no distance_miles: metrics.distance_miles.toFixed(1)
\* throws a TypeError
SummaryThrows(result) ==
    /\ result.repetition_metrics = Null /\ result.interval_metrics = Null
    /\ result.metrics # Null
    /\ "distance_miles" \notin DOMAIN result.metrics

Return(value) == [kind |-> "return", result |-> value]

\* a call of formatWorkoutSummary: the string returned or the exception
CallFormatWorkoutSummary(result) ==
    IF SummaryThrows(result) THEN Throw("TypeError")
    ELSE Return(formatWorkoutSummary(result))

(***************************************************************************)
(* analyzeWorkout (services/workoutAnalysis.ts).  The file holds two       *)
(* versions of the function: "paceZone" (lines 350-475) answers all-easy   *)
(* activities itself before asking the external model, "repetition"        *)
(* (lines 860-956) asks the external model about every activity.           *)
(***************************************************************************)
TEN_MILES_METERS       == R(1609344, 100)
NINETY_MINUTES_SECONDS == 5400

\* an activity without laps data is a record without the field laps
HasLaps(activity) == "laps" \in DOMAIN activity

isEasyRun(activity) ==
    IF ~HasLaps(activity) \/ Len(activity.laps) = 0 THEN FALSE
    ELSE \A k \in 1..Len(activity.laps) :
             activity.laps[k].pace_zone = 1 \/ activity.laps[k].pace_zone = 2

isLongRun_DistanceOnly(activity) ==
    JsGE(activity.distance, TEN_MILES_METERS)
isLongRun(activity) ==
    \/ JsGE(activity.distance, TEN_MILES_METERS)
    \/ JsGE(activity.moving_time, Whole(NINETY_MINUTES_SECONDS))

\* calculateRunMetrics on the aggregate stats, typed by isLongRun
AggregateResult(activity) ==
    WorkoutResult(IF isLongRun(activity) THEN "L" ELSE "E", Null,
        calculateRunMetrics(
            [distance_meters      |-> activity.distance,
             moving_time_seconds  |-> activity.moving_time,
             average_heartrate    |-> activity.average_heartrate]),
        Null, Null)

\* function.arguments that JSON.parse rejects
Malformed == [kind |-> "malformed"]

ToolCall(name, arguments) == [name |-> name, arguments |-> arguments]

\* the for loop over the tool calls of one response (lines 404-432 and
\* 894-925): the calculators set calculationResult, returnWorkoutResult
\* returns its arguments, an exception of JSON.parse or of a calculator
\* leaves analyzeWorkout
RECURSIVE RunToolCalls(_, _, _)
RunToolCalls(ver, toolCalls, calc) ==
    IF Len(toolCalls) = 0
    THEN [kind |-> "continue", calculationResult |-> calc]
    ELSE
    LET functionName == toolCalls[1].name
        functionArgs == toolCalls[1].arguments
        rest         == Tail(toolCalls)
    IN  IF functionArgs = Malformed
        THEN Throw("SyntaxError")
        ELSE IF functionName = "calculateRunMetrics"
        THEN RunToolCalls(ver, rest, calculateRunMetrics(functionArgs))
        ELSE IF functionName = "calculateTempoBlockMetrics"
        THEN RunToolCalls(ver, rest,
                          calculateTempoBlockMetrics(functionArgs.laps))
        ELSE IF functionName = "calculateIntervalMetrics"
        THEN RunToolCalls(ver, rest,
                          calculateIntervalMetrics(functionArgs.laps))
        ELSE IF ver = "repetition"
                /\ functionName = "calculateRepetitionStructure"
        THEN LET r == calculateRepetitionStructure(functionArgs.laps)
             IN  IF r.kind = "throw" THEN r
                 ELSE RunToolCalls(ver, rest, r)
        ELSE IF functionName = "returnWorkoutResult"
        THEN Return(functionArgs)
        ELSE RunToolCalls(ver, rest, calc)

\* after the loop (lines 444-474 and 937-955)
AfterLoop(ver, activity, calc) ==
    IF calc # Null
    THEN IF "interval_count" \in DOMAIN calc
         THEN Return(WorkoutResult("T", "interval", Null, calc, Null))
         ELSE Return(WorkoutResult("E", Null, calc, Null, Null))
    ELSE IF ver = "paceZone"
    THEN Return(AggregateResult(activity))
    ELSE Throw("Failed to analyze workout: no calculation results")

(***************************************************************************)
(* applyRunNoteToDescription (utils/activityFormatter.ts; the same code as *)
(* applyRunNoteTopLLMSafe of functions/webhook.ts).  A string is the       *)
(* sequence of its characters.                                             *)
(***************************************************************************)
LF == "\n"
CR == "\r"

\* the characters \s matches
IsSpace(c) == c \in {" ", "\t", LF, CR}

\* the letters of the marker in lower case, for the i flag
ToLower(c) ==
    CASE c = "F" -> "f" [] c = "R" -> "r" [] c = "O" -> "o" [] c = "M" -> "m"
      [] c = "U" -> "u" [] c = "N" -> "n" [] c = "T" -> "t" [] c = "E" -> "e"
      [] OTHER -> c

marker == <<"-", "-", "f", "r", "o", "m", " ", "R", "u", "n", "N", "o", "t",
            "e">>

\* s.replace(/\r\n/g, '\n')
RECURSIVE ReplaceCRLF(_)
ReplaceCRLF(s) ==
    IF Len(s) = 0 THEN s
    ELSE IF Len(s) >= 2 /\ s[1] = CR /\ s[2] = LF
    THEN <<LF>> \o ReplaceCRLF(SubSeq(s, 3, Len(s)))
    ELSE <<s[1]>> \o ReplaceCRLF(Tail(s))

\* s.trimEnd(), s.trimStart(), s.trim()
RECURSIVE trimEnd(_)
trimEnd(s) ==
    IF Len(s) > 0 /\ IsSpace(s[Len(s)])
    THEN trimEnd(SubSeq(s, 1, Len(s) - 1)) ELSE s

RECURSIVE trimStart(_)
trimStart(s) ==
    IF Len(s) > 0 /\ IsSpace(s[1]) THEN trimStart(Tail(s)) ELSE s

trim(s) == trimStart(trimEnd(s))

\* the first position from i on that does not hold a space (\s* from i)
RECURSIVE SkipSpace(_, _)
SkipSpace(s, i) ==
    IF i <= Len(s) /\ IsSpace(s[i]) THEN SkipSpace(s, i + 1) ELSE i

\* the position after word read from i without regard to case, 0 if s does
\* not hold word there
AfterWord(s, i, word) ==
    IF /\ i > 0
       /\ i + Len(word) - 1 <= Len(s)
       /\ \A k \in 1..Len(word) : ToLower(s[i + k - 1]) = ToLower(word[k])
    THEN i + Len(word) ELSE 0

AfterSpaceAndWord(s, i, word) ==
    IF i = 0 THEN 0 ELSE AfterWord(s, SkipSpace(s, i), word)

\* the position after the match of /\s*--\s*from\s*RunNote\s*/i that starts
\* at i, 0 if there is none
MarkerMatchEnd_CaseSensitive(s, i) ==
    LET dashes  == AfterSpaceAndWord(s, i, <<"-", "-">>)
        from    == AfterSpaceAndWord(s, dashes, <<"f", "r", "o", "m">>)
        runNote == IF from = 0 THEN 0
                   ELSE LET j == SkipSpace(s, from)
                        IN  IF SubSeq(s, j, j + 6)
                                 = <<"R", "u", "n", "N", "o", "t", "e">>
                            THEN j + 7 ELSE 0
    IN  IF runNote = 0 THEN 0 ELSE SkipSpace(s, runNote)
MarkerMatchEnd(s, i) ==
    LET dashes  == AfterSpaceAndWord(s, i, <<"-", "-">>)
        from    == AfterSpaceAndWord(s, dashes, <<"f", "r", "o", "m">>)
        runNote == AfterSpaceAndWord(s, from,
                       <<"R", "u", "n", "N", "o", "t", "e">>)
    IN  IF runNote = 0 THEN 0 ELSE SkipSpace(s, runNote)

\* s.replace(/\s*--\s*from\s*RunNote\s*/gi, '') from position i on
RECURSIVE StripMarkersFrom(_, _)
StripMarkersFrom(s, i) ==
    IF i > Len(s) THEN <<>>
    ELSE LET e == MarkerMatchEnd(s, i)
         IN  IF e # 0 THEN StripMarkersFrom(s, e)
             ELSE <<s[i]>> \o StripMarkersFrom(s, i + 1)

\* s.replace(/\s*\n+\s*/g, ' ') from position i on: a run of spaces that
\* holds a line feed becomes one blank
RECURSIVE CollapseFrom(_, _)
CollapseFrom(s, i) ==
    IF i > Len(s) THEN <<>>
    ELSE LET e == SkipSpace(s, i)
         IN  IF \E k \in i..(e - 1) : s[k] = LF
             THEN <<" ">> \o CollapseFrom(s, e)
             ELSE <<s[i]>> \o CollapseFrom(s, i + 1)

\* endsWithMarker.test(l): /\s*--\s*from\s*RunNote\s*$/i
endsWithMarker(l) ==
    \E i \in 1..Len(l) : MarkerMatchEnd(l, i) = Len(l) + 1

\* s.split(/\n/)
RECURSIVE split(_, _)
split(s, line) ==
    IF Len(s) = 0 THEN <<line>>
    ELSE IF s[1] = LF THEN <<line>> \o split(Tail(s), <<>>)
    ELSE split(Tail(s), Append(line, s[1]))

\* lines.join('\n')
RECURSIVE join(_)
join(lines) ==
    IF Len(lines) = 0 THEN <<>>
    ELSE IF Len(lines) = 1 THEN lines[1]
    ELSE lines[1] \o <<LF>> \o join(Tail(lines))

\* a string argument; Null is null
Text(s) == [text |-> s]

KeepLine_KeepsRunNote(l) == Len(l) > 0

KeepLine(l) == Len(l) > 0 /\ ~endsWithMarker(trim(l))

applyRunNoteToDescription(existingDescription, summary) ==
    LET desc == ReplaceCRLF(IF existingDescription = Null THEN <<>>
                            ELSE existingDescription.text)
        collapsed   == trim(CollapseFrom(summary, 1))
        summaryLine == trim(StripMarkersFrom(collapsed, 1))
        runNoteLine == summaryLine \o <<" ">> \o marker
        lines == split(desc, <<>>)
        kept  == SelectSeq([k \in 1..Len(lines) |-> trimEnd(lines[k])],
                           KeepLine)
    IN  IF Len(kept) = 0
        THEN runNoteLine \o <<LF, LF>>
        ELSE runNoteLine \o <<LF, LF>> \o join(kept)

(***************************************************************************)
(* Inputs                                                                  *)
(***************************************************************************)
MaxLen       == 8      \* longest argument of findRepeatingPattern drawn
MaxMeters    == 2500   \* largest whole distance drawn for roundToStandardDistance
MaxLaps      == 6      \* longest lap list drawn from CoreLaps
MaxBefore    == 2      \* laps drawn before an edge lap
MaxAfter     == 4      \* laps drawn after an edge lap
MaxCalls     == 1      \* most tool calls in one response of the external model
MaxRequests  == 2      \* most requests one analyzeWorkout call sends
MaxSets      == 3      \* most sets of the repetition metrics drawn
MaxLines     == 2      \* most lines of an existing description drawn
MaxCallbacks == 2      \* most authCallback requests running concurrently
MaxTicks     == 3      \* most steps of five minutes the clock advances
MaxBetween   == 4      \* most long slow laps between two work laps drawn
MaxEasyLaps  == 2      \* most laps of an activity given to preDetectEasyRun
MaxMetricLaps == 3     \* longest lap list drawn for the metrics calculators
MaxPaceTenths == 1300  \* largest pace drawn for formatPace, in tenths of a second

Values == {200, 300, 400}

\* laps as recorded: distance in centimetres, speed in hundredths of a m/s
CoreLaps == {
    Lap(19815, 472),    \* fast 198.15 m
    Lap(41155, 484),    \* fast 411.55 m
    Lap(20922, 258),    \* slow 209.22 m
    Lap(80000, 292) }   \* slow 800 m

EdgeLaps == {
    Lap(38410, 261),    \* slow 384.1 m
    Lap(100000, 400),   \* steady 1000 m
    Lap(100000, 450),   \* fast 1000 m
    Lap(10000, 500),    \* fast 100 m
    Lap(4328, 271),     \* slow 43.28 m
    Lap(255663, 270),   \* slow 2556.63 m
    Lap(18000, 431),    \* the slowest, shortest work lap
    Lap(60000, 431),    \* the longest work lap
    Lap(17999, 450),    \* just too short for work
    Lap(20000, 430),    \* just too slow for work
    Lap(15000, 349),    \* the shortest, fastest recovery lap
    Lap(20000, 350),    \* just too fast for recovery
    Lap(60001, 349),    \* the shortest between-set recovery lap
    Lap(200000, 300),   \* the longest between-set recovery lap
    Lap(200001, 300) }  \* just too long for between-set recovery

AllLaps == CoreLaps \cup EdgeLaps

\* the laps an edge lap is framed with: a work lap and a steady lap
FrameLaps == {Lap(19815, 472), Lap(100000, 400)}

EdgeInputs ==
    {p \o <<e>> \o q : p \in SeqUpTo(FrameLaps, MaxBefore), e \in EdgeLaps,
                       q \in SeqUpTo(FrameLaps, MaxAfter)}

\* test-calc.ts: 2 x (8 x 200 m) with an 800 m between-set recovery
activity16445002078_laps == <<
    Lap(255663, 270), Lap(20000, 455), Lap(20000, 290),
    Lap(20000, 465), Lap(20000, 247), Lap(20000, 488),
    Lap(20000, 286), Lap(20000, 476), Lap(20000, 253),
    Lap(20000, 488), Lap(20000, 260), Lap(20000, 488),
    Lap(20000, 260), Lap(20000, 500), Lap(20000, 274),
    Lap(20000, 488), Lap(20000, 282), Lap(80000, 292),
    Lap(20000, 455), Lap(20000, 267), Lap(20000, 488),
    Lap(20000, 235), Lap(20000, 488), Lap(20000, 217),
    Lap(20000, 488), Lap(20000, 267), Lap(20000, 476),
    Lap(20000, 220), Lap(20000, 465), Lap(20000, 213),
    Lap(20000, 455), Lap(20000, 290), Lap(20000, 455),
    Lap(20000, 267), Lap(152230, 290) >>

\* test-calc.ts: 10 x 200 m
activity14971708503_laps == <<
    Lap(321861, 264), Lap(19121, 466), Lap(20898, 218),
    Lap(19251, 470), Lap(20912, 197), Lap(19059, 476),
    Lap(20819, 196), Lap(19017, 475), Lap(20960, 196),
    Lap(19237, 506), Lap(20682, 145), Lap(19458, 512),
    Lap(20749, 124), Lap(18993, 475), Lap(21000, 198),
    Lap(18916, 473), Lap(21067, 203), Lap(18965, 463),
    Lap(21115, 199), Lap(18879, 460), Lap(19620, 213),
    Lap(407185, 315) >>

\* ladder 400, 200, 200
activity15120301578_laps == <<
    Lap(19815, 472), Lap(20922, 258), Lap(41155, 484),
    Lap(38410, 261), Lap(20578, 502), Lap(19696, 234),
    Lap(19977, 487), Lap(20010, 202), Lap(39495, 482),
    Lap(40481, 263), Lap(20396, 486), Lap(19312, 236),
    Lap(20776, 495), Lap(18738, 204), Lap(39214, 478),
    Lap(40478, 265), Lap(20212, 481), Lap(19806, 242),
    Lap(20102, 479), Lap(19876, 171), Lap(39338, 474),
    Lap(160930, 305), Lap(160930, 316), Lap(4328, 271) >>

\* the lap lists the tests pass: warmup and cooldown laps sliced off
laps1 == slice(activity16445002078_laps, 1, Len(activity16445002078_laps) - 1)
laps2 == slice(activity14971708503_laps, 1, Len(activity14971708503_laps) - 1)
laps3 == slice(activity15120301578_laps, 2, Len(activity15120301578_laps) - 3)

TestLaps == {laps1, laps2, laps3}

\* work laps among recoveries of about 200 m and about 400 m
RecoveryMix == {Lap(19815, 472), Lap(20922, 258), Lap(38410, 261)}

RecoveryInputs == SeqUpTo(RecoveryMix, MaxLaps - 1)

\* two work laps with up to MaxBetween long slow laps between them, and two
\* steady laps to finish
SparseInputs ==
    {<<Lap(19815, 472)>> \o [i \in 1..k |-> Lap(80000, 292)]
         \o <<Lap(19815, 472), Lap(100000, 400), Lap(100000, 400)>> :
        k \in 1..MaxBetween}

LapInputs ==
    SeqUpTo(CoreLaps, MaxLaps) \cup EdgeInputs \cup RecoveryInputs
        \cup SparseInputs \cup TestLaps

\* every distance of a test lap, and every whole distance up to MaxMeters
RECURSIVE Range(_)
Range(a) == IF Len(a) = 0 THEN {} ELSE {a[1]} \cup Range(Tail(a))

MeterInputs ==
    {Whole(n) : n \in 0..MaxMeters}
        \cup {l.distance : l \in AllLaps}
        \cup UNION {{l.distance : l \in Range(a)} :
                       a \in {activity16445002078_laps, activity14971708503_laps,
                              activity15120301578_laps}}

(***************************************************************************)
(* Inputs of analyzeWorkout: activities, and what the external model may   *)
(* answer to a request.                                                    *)
(***************************************************************************)
ActivityLap(cm, seconds, hr, zone) ==
    [distance |-> R(cm, 100), moving_time |-> Whole(seconds),
     average_heartrate |-> Whole(hr), pace_zone |-> zone]

RecoveryPaceLap == ActivityLap(160934, 600, 120, 1)
EasyPaceLap     == ActivityLap(160934, 540, 130, 2)
TempoPaceLap    == ActivityLap(160934, 400, 160, 3)

\* no lap, easy laps only, an easy and a tempo lap
ActivityLaps ==
    {<<>>, <<EasyPaceLap>>, <<RecoveryPaceLap, EasyPaceLap>>,
     <<EasyPaceLap, TempoPaceLap>>}

\* distance and moving time: 17714.6 m in 5930 s, and ten miles or four
\* centimetres less in ninety minutes or a second less
ActivityStats ==
    {[distance |-> R(177146, 10), moving_time |-> Whole(5930)]}
    \cup
    {[distance |-> d, moving_time |-> Whole(t)] :
        d \in {TEN_MILES_METERS, R(160934, 10)},
        t \in {NINETY_MINUTES_SECONDS, NINETY_MINUTES_SECONDS - 1}}

Activities ==
    {[distance |-> s.distance, moving_time |-> s.moving_time,
      average_heartrate |-> Whole(130), laps |-> ls] :
        s \in ActivityStats, ls \in ActivityLaps}
    \cup
    {[distance |-> s.distance, moving_time |-> s.moving_time,
      average_heartrate |-> Whole(130)] : s \in ActivityStats}

\* Easy Run Example 1 (activity 16310765740)
EasyRunExample1 ==
    [distance |-> R(177146, 10), moving_time |-> Whole(5930),
     average_heartrate |-> Whole(130),
     laps |-> <<RecoveryPaceLap, EasyPaceLap>>]

\* the laps of an activity in pace zone 3 and above, as calculator arguments
HardLaps(activity) ==
    IF ~HasLaps(activity) THEN <<>>
    ELSE LET hard == SelectSeq(activity.laps, LAMBDA l : l.pace_zone >= 3)
         IN  [k \in 1..Len(hard) |->
                 [distance |-> hard[k].distance,
                  moving_time |-> hard[k].moving_time,
                  average_heartrate |-> hard[k].average_heartrate]]

\* the types the external model answers with
ModelTypes == {"E", "T"}

\* the tool calls the external model may put in a response
ToolCallsFor(activity) ==
    {ToolCall("calculateRunMetrics",
              [distance_meters     |-> activity.distance,
               moving_time_seconds |-> activity.moving_time,
               average_heartrate   |-> activity.average_heartrate]),
     ToolCall("calculateRunMetrics", Malformed),
     ToolCall("calculateTempoBlockMetrics", [laps |-> HardLaps(activity)]),
     ToolCall("calculateIntervalMetrics", [laps |-> HardLaps(activity)]),
     ToolCall("calculateRepetitionStructure",
              [laps |-> <<Lap(19815, 472), Lap(20922, 258),
                          Lap(19815, 472)>>]),
     ToolCall("calculateRepetitionStructure",
              [laps |-> <<Lap(20922, 258)>>]),
     ToolCall("lookupWeather", [city |-> "Boston"])}
        \cup {ToolCall("returnWorkoutResult",
                       WorkoutResult(t, Null, Null, Null, Null)) :
                  t \in ModelTypes}

(***************************************************************************)
(* Inputs of the metrics calculators and of formatPace                     *)
(***************************************************************************)
\* the laps of a tempo block of 5011.28 m in 1238 s
TempoBlockLaps ==
    <<TimedLap(160934, 400, 158), TimedLap(160934, 398, 160),
      TimedLap(160934, 395, 164), TimedLap(18326, 45, 166)>>

\* a mile lap, a half-mile lap, a lap without distance
MetricLaps ==
    {TimedLap(160934, 400, 160), TimedLap(80467, 210, 165),
     TimedLap(0, 30, 120)}

MetricLapLists ==
    SeqUpTo(MetricLaps, MaxMetricLaps)
        \cup {TempoBlockLaps, <<TimedLap(501128, 1238, 161)>>}

RunParams ==
    {[distance_meters |-> d, moving_time_seconds |-> Whole(t),
      average_heartrate |-> hr] :
        d \in {Whole(0), R(804672, 100), R(177146, 10), R(501128, 100)},
        t \in {0, 1238, 5930},
        hr \in {Whole(130), R(1295, 10)}}

\* a calculator, its arguments, and the type and structure the metrics are
\* reported under
CalculatorCalls ==
    {[name |-> "calculateRunMetrics", arguments |-> p, type |-> t,
      structure |-> Null] : p \in RunParams, t \in {"E", "L"}}
    \cup
    {[name |-> "calculateTempoBlockMetrics", arguments |-> [laps |-> ls],
      type |-> "T", structure |-> "continuous"] : ls \in MetricLapLists}
    \cup
    {[name |-> "calculateIntervalMetrics", arguments |-> [laps |-> ls],
      type |-> t, structure |-> "interval"] :
          ls \in MetricLapLists, t \in {"T", "V"}}

\* paces in tenths of a second per mile
PaceInputs == {R(n, 10) : n \in 0..MaxPaceTenths}

(***************************************************************************)
(* Inputs of formatWorkoutSummary: results with and without repetition     *)
(* metrics, alone and next to interval and continuous metrics.             *)
(***************************************************************************)
RepetitionMetrics ==
    {[sets |-> s, reps_per_set |-> r, work_distance_meters |-> w,
      recovery_distance_meters |-> rec,
      between_set_recovery_distance_meters |-> b] :
        s \in 1..MaxSets, r \in {1, 8},
        w \in {Num(200), Num(400), Arr(<<400, 200, 200>>)},
        rec \in {Num(200), Arr(<<400, 200>>)},
        b \in {0, 800}}
    \cup {calculateRepetitionStructure(ls) : ls \in TestLaps}

SummaryInputs ==
    {WorkoutResult("R", Null, m, im, rm) :
        m  \in {Null, calculateTempoBlockMetrics(TempoBlockLaps)},
        im \in {Null, calculateIntervalMetrics(TempoBlockLaps)},
        rm \in RepetitionMetrics \cup {Null}}

(***************************************************************************)
(* Inputs of applyRunNoteToDescription                                     *)
(***************************************************************************)
\* the marker in another spelling, with a blank after it
markerVariant ==
    <<"-", "-", " ", "F", "R", "O", "M", "r", "u", "n", "n", "o", "t", "e",
      " ">>

\* lines of a description: empty, blank, a device line without and with a
\* blank after it, two earlier RunNote lines, the marker inside a line
DescriptionLines ==
    {<<>>, <<" ">>, <<"C">>, <<"D", " ">>,
     <<"T", " ">> \o marker, <<"V">> \o markerVariant,
     marker \o <<"!">>}

\* the lines joined by eol
RECURSIVE JoinLines(_, _)
JoinLines(lines, eol) ==
    IF Len(lines) = 0 THEN <<>>
    ELSE IF Len(lines) = 1 THEN lines[1]
    ELSE lines[1] \o eol \o JoinLines(Tail(lines), eol)

Descriptions ==
    {Null} \cup
    {Text(JoinLines(lines, eol)) :
        lines \in SeqUpTo(DescriptionLines, MaxLines),
        eol \in {<<LF>>, <<CR, LF>>}}

\* summaries: one line, two lines, blanks around the line break, a summary
\* that carries the marker already
Summaries ==
    {<<"E">>, <<"E", LF, "x">>, <<" ", "E", " ", CR, LF, LF, " ", "x", " ">>,
     <<"E", " ">> \o marker, <<"E">> \o markerVariant \o <<"x">>}

(***************************************************************************)
(* The webhook handler (functions/webhook.ts) and the Strava helpers it    *)
(* calls (shared/ai.ts).  Strava, the token table and the language model   *)
(* are the environment: every call on them ends in one of the outcomes     *)
(* below.                                                                  *)
(***************************************************************************)
\* a value thrown: an AxiosError carries the HTTP status of its response,
\* status 0 stands for an error without a response
Err(name, status) == [name |-> name, status |-> status]

\* err.response && (status === 401 || status === 403)
IsAuthFailure(err) == err.status # 0 /\ err.status \in {401, 403}

\* TokenRow of the one athlete
TokenRow(access_token, refresh_token, expires_at) ==
    [access_token |-> access_token, refresh_token |-> refresh_token,
     expires_at |-> expires_at]

\* Math.floor(Date.now() / 1000) during the request
Now == 1000

\* the default of the skew parameter of isExpired
Skew == 60

isExpired(expires_at) == expires_at <= Now + Skew

\* the row built by refreshTokens from Strava's answer: the next access and
\* refresh token, valid for another six hours
Refreshed(old) ==
    TokenRow(old.access_token + 1, old.refresh_token + 1, Now + 21600)

\* withTokenRetry before its first attempt
RetryStart(op, tokenRow) ==
    [op |-> op, tokenRow |-> tokenRow, calls |-> <<>>, refreshes |-> 0,
     phase |-> "first", out |-> Null, error |-> Null]

NoRetry == [op |-> "none", tokenRow |-> Null, calls |-> <<>>, refreshes |-> 0,
            phase |-> "none", out |-> Null, error |-> Null]

\* the catch clause of withTokenRetry after the first attempt threw err
AfterFirstError_AnyResponse(r, err) ==
    IF err.status # 0
    THEN [r EXCEPT !.phase = "refresh"]
    ELSE [r EXCEPT !.phase = "thrown", !.error = err]

AfterFirstError(r, err) ==
    IF IsAuthFailure(err)
    THEN [r EXCEPT !.phase = "refresh"]
    ELSE [r EXCEPT !.phase = "thrown", !.error = err]

\* the catch clause of the handler: the error is logged, the event
\* acknowledged
Catch_ServerErrorEscapes(err) ==
    IF err.status >= 500 THEN [kind |-> "throw", error |-> err]
    ELSE [kind |-> "response", status |-> 200]

Catch(err) == [kind |-> "response", status |-> 200]

Respond(status) == [kind |-> "response", status |-> status]

\* the function of webhook.ts, the same text as applyRunNoteToDescription
applyRunNoteTopLLMSafe(existing, summary) ==
    LET desc == ReplaceCRLF(IF existing = Null THEN <<>> ELSE existing.text)
        collapsed   == trim(CollapseFrom(summary, 1))
        summaryLine == trim(StripMarkersFrom(collapsed, 1))
        runNoteLine == summaryLine \o <<" ">> \o marker
        lines == split(desc, <<>>)
        kept  == SelectSeq([k \in 1..Len(lines) |-> trimEnd(lines[k])], KeepLine)
    IN  IF Len(kept) = 0 THEN runNoteLine \o <<LF, LF>>
        ELSE runNoteLine \o <<LF, LF>> \o join(kept)

\* ---- the webhook handler ----
\* the body of a POST: text that is not JSON, the JSON null, and events
Event(json, object_type, aspect_type) ==
    [json |-> json, object_type |-> object_type, aspect_type |-> aspect_type]

WebhookBodies ==
    {Event("unparsable", "", ""), Event("null", "", ""),
     Event("object", "athlete", "update"),
     Event("object", "activity", "update"),
     Event("object", "activity", "create")}

\* the token table: no row, a row that expired, a row that expires within
\* the skew, a row still valid
TokenRows ==
    {Null, TokenRow(1, 1, Now), TokenRow(1, 1, Now + Skew),
     TokenRow(1, 1, Now + Skew + 1)}

\* the description of the activity at Strava: none, empty, a device line,
\* a description that carries the RunNote line of summary E already
ActivityDescriptions ==
    {Null, Text(<<>>), Text(<<"C">>),
     Text(<<"E", " ">> \o marker \o <<LF, LF, "C">>)}

\* how a call on Strava ends: Null for success, else the error thrown
StravaOutcomes ==
    {Null} \cup {Err("AxiosError", status) : status \in {0, 401, 403, 500}}

\* the content of the last message of the language model
ModelContents == {Null, Text(<<" ">>), Text(<<"E">>), Text(<<"T", " ">>)}

\* content?.trim() || 'Easy run'
FinalMessage(content) ==
    IF content = Null \/ trim(content.text) = <<>>
    THEN <<"E", "a", "s", "y", " ", "r", "u", "n">>
    ELSE trim(content.text)

(***************************************************************************)
(* The OAuth state table (saveState, validateAndConsumeState of            *)
(* shared/ai.ts) and the authCallback handler that checks the state.       *)
(***************************************************************************)
\* the age in milliseconds above which a state has expired
StateLifetime == 600000

\* t.getEntity('oauth', state): the timestamp of the row, or a throw when
\* the table has no row for the state
getEntity(table, state) ==
    IF table # Null /\ table.rowKey = state
    THEN Return(table.timestamp)
    ELSE Throw("ResourceNotFound")

\* t.deleteEntity('oauth', state): the table afterwards and whether the
\* call threw; the table service answers 404 for a row that does not exist
\* and the client throws for it, failed is any other failure of the call
deleteEntity_MissingIsFine(table, state, failed) ==
    IF failed
    THEN [table |-> table, thrown |-> TRUE]
    ELSE [table |-> IF table # Null /\ table.rowKey = state
                    THEN Null ELSE table,
          thrown |-> FALSE]

deleteEntity(table, state, failed) ==
    IF failed \/ table = Null \/ table.rowKey # state
    THEN [table |-> table, thrown |-> TRUE]
    ELSE [table |-> Null, thrown |-> FALSE]

\* the handler of authCallback after validateAndConsumeState returned
\* isValidState: the status it returns, or 0 when it goes on to exchange
\* the code
AfterValidation_CodeOnly(isValidState, code) ==
    IF code = "" THEN 400 ELSE 0

AfterValidation(isValidState, code) ==
    IF ~isValidState THEN 403
    ELSE IF code = "" THEN 400
    ELSE 0

\* ---- authCallback ----
\* a request: its state and code parameters ("" for a missing parameter),
\* where it stands, the timestamp read and the age computed from it, what
\* validateAndConsumeState returned, whether a call had already returned
\* true when this one was made, the status returned and the calls made
Callback(state, code) ==
    [state |-> state, code |-> code, pc |-> "start", timestamp |-> 0,
     age |-> 0, valid |-> "none", afterTrue |-> FALSE, status |-> 0,
     trace |-> <<>>]

\* the state saved by authConnect is "s"; "x" was never saved
CallbackRequests ==
    {Callback("", "c"), Callback("s", "c"), Callback("s", ""),
     Callback("x", "c")}

(***************************************************************************)
(* preDetectEasyRun (src/unnamed/part_001).  Speeds are in hundredths of   *)
(* a m/s, distances in metres, confidences in hundredths.                  *)
(***************************************************************************)
\* a JavaScript number used as a condition: 0 is falsy
Truthy(x) == x # 0

PreDetectionResult(isEasy, confidence, reason) ==
    [isEasyRun |-> isEasy, confidence |-> confidence, reason |-> reason]

\* the loop of check 4: the largest |currSpeed - prevSpeed| over the
\* consecutive laps whose speeds are both truthy
RECURSIVE MaxSpeedDifferential(_, _, _)
MaxSpeedDifferential(ls, i, maxSoFar) ==
    IF i > Len(ls) THEN maxSoFar
    ELSE LET prevSpeed == ls[i - 1].average_speed
             currSpeed == ls[i].average_speed
         IN  IF Truthy(prevSpeed) /\ Truthy(currSpeed)
                /\ Abs(currSpeed - prevSpeed) > maxSoFar
             THEN MaxSpeedDifferential(ls, i + 1, Abs(currSpeed - prevSpeed))
             ELSE MaxSpeedDifferential(ls, i + 1, maxSoFar)

preDetectEasyRun(activity) ==
    IF ~HasLaps(activity) \/ Len(activity.laps) = 0
    THEN PreDetectionResult(FALSE, 0, "No laps data available")
    ELSE IF Truthy(activity.max_heartrate) /\ activity.max_heartrate > 165
    THEN PreDetectionResult(FALSE, 95, "High max HR")
    ELSE IF Truthy(activity.max_speed) /\ activity.max_speed > 460
    THEN PreDetectionResult(FALSE, 90, "High max speed")
    ELSE IF \E k \in 1..Len(activity.laps) :
                /\ Truthy(activity.laps[k].distance)
                /\ activity.laps[k].distance < 150
    THEN PreDetectionResult(FALSE, 90, "Short recovery laps detected")
    ELSE IF \E k \in 1..Len(activity.laps) :
                /\ Truthy(activity.laps[k].average_speed)
                /\ activity.laps[k].average_speed > 400
    THEN PreDetectionResult(FALSE, 85, "High-speed work intervals detected")
    ELSE IF MaxSpeedDifferential(activity.laps, 2, 0) > 150
    THEN PreDetectionResult(FALSE, 85, "Large pace variations between laps")
    ELSE PreDetectionResult(TRUE, 90, "Consistent pace")

\* ---- preDetectEasyRun ----
\* laps around the thresholds of the checks: 0, 149, 150 and 1000 m at
\* 0, 2.49, 4.0 and 4.01 m/s
PreDetectLaps ==
    {[distance |-> d, average_speed |-> v] :
        d \in {0, 149, 150, 1000}, v \in {0, 249, 400, 401}}

\* activities with laps, with an empty lap list and without a lap list
PreDetectActivities ==
    {[laps |-> ls, max_heartrate |-> hr, max_speed |-> v] :
        ls \in SeqUpTo(PreDetectLaps, MaxEasyLaps),
        hr \in {0, 165, 166}, v \in {0, 460, 461}}
    \cup {[max_heartrate |-> 140, max_speed |-> 300]}

(***************************************************************************)
(* State machine.  Each function is applied to an input drawn in Init; the *)
(* three groups of variables are independent, and a group that a           *)
(* specification does not exercise stays idle.                             *)
(***************************************************************************)
IdlePattern ==
    arr = <<>> /\ found = NotRun /\ prev = NotRun /\ ppc = "idle"
IdleRound ==
    /\ meters = Whole(0) /\ rounded = NotRun /\ divZero = FALSE
    /\ roundedAgain = NotRun /\ rpc = "idle"
IdleRep ==
    /\ laps = <<>> /\ workLaps = <<>> /\ regularRecoveryLaps = <<>>
    /\ betweenSetRecoveryLaps = <<>> /\ outcome = NotRun /\ cpc = "idle"

IdleAnalyze ==
    /\ activityIn = Null /\ version = "none" /\ requests = 0
    /\ calculationResult = Null /\ analysis = NotRun
    /\ firstAnalysis = "none" /\ apc = "idle"
IdleFormat ==
    /\ calcCall = Null /\ metricsOut = NotRun /\ formatIn = NotRun
    /\ summaryOut = NotRun
    /\ paceIn = Null /\ paceOut = NotRun /\ fpc = "idle"
IdleDescription ==
    /\ description = Null /\ summaryText = <<>> /\ updated = NotRun
    /\ summary2 = <<>> /\ replaced = NotRun /\ direct = NotRun
    /\ dpc = "idle"

IdleWebhook ==
    /\ req = Null /\ tokenTable = Null /\ tokenRec = Null /\ act = NotRun
    /\ llmSummary = <<>> /\ nextDescription = NotRun
    /\ stravaDescription = Null /\ retry = NoRetry /\ response = NotRun
    /\ wpc = "idle"
IdleOAuth ==
    /\ stateTable = Null /\ clock = 0 /\ callbacks = <<>> /\ opc = "idle"
IdlePreDetect ==
    preActivity = Null /\ preDetection = NotRun /\ qpc = "idle"
IdleService == IdleWebhook /\ IdleOAuth /\ IdlePreDetect

InitPattern ==
    /\ arr \in SeqUpTo(Values, MaxLen)
    /\ found = NotRun /\ prev = NotRun /\ ppc = "start"
    /\ IdleRound /\ IdleRep /\ IdleAnalyze /\ IdleFormat /\ IdleDescription
    /\ IdleService

InitRound ==
    /\ meters \in MeterInputs
    /\ rounded = NotRun /\ divZero = FALSE /\ roundedAgain = NotRun
    /\ rpc = "start"
    /\ IdlePattern /\ IdleRep /\ IdleAnalyze /\ IdleFormat /\ IdleDescription
    /\ IdleService

InitRep ==
    /\ laps \in LapInputs
    /\ workLaps = <<>> /\ regularRecoveryLaps = <<>>
    /\ betweenSetRecoveryLaps = <<>> /\ outcome = NotRun /\ cpc = "start"
    /\ IdlePattern /\ IdleRound /\ IdleAnalyze /\ IdleFormat
    /\ IdleService
    /\ IdleDescription

\* findRepeatingPattern(arr)
Find ==
    /\ ppc = "start"
    /\ found' = findRepeatingPattern(arr)
    /\ ppc' = "found"
    /\ UNCHANGED <<arr, prev, roundVars, repVars, laterVars>>

\* arr is whole repetitions of the pattern found; the first t values of the
\* pattern (an unfinished last repetition) are appended and the pattern is
\* searched again
FindWithPartialTail(t) ==
    /\ ppc = "found"
    /\ found # Null
    /\ Len(arr) = found.sets * Len(found.pattern)
    /\ t < Len(found.pattern)
    /\ arr' = arr \o SubSeq(found.pattern, 1, t)
    /\ prev' = found
    /\ found' = findRepeatingPattern(arr')
    /\ ppc' = "appended"
    /\ UNCHANGED <<roundVars, repVars, laterVars>>

\* roundToStandardDistance(meters)
Round ==
    /\ rpc = "start"
    /\ rounded' = roundToStandardDistance(meters)
    /\ divZero' = DividesByZero(meters)
    /\ rpc' = "rounded"
    /\ UNCHANGED <<meters, roundedAgain, patVars, repVars, laterVars>>

\* roundToStandardDistance(roundToStandardDistance(meters))
RoundAgain ==
    /\ rpc = "rounded"
    /\ roundedAgain' = roundToStandardDistance(Whole(rounded))
    /\ divZero' = DividesByZero(Whole(rounded))
    /\ rpc' = "again"
    /\ UNCHANGED <<meters, rounded, patVars, repVars, laterVars>>

\* calculateRepetitionStructure({ laps })
Calculate ==
    /\ cpc = "start"
    /\ LET lists == IF Len(laps) = 0 THEN NoLists ELSE ClassifyLaps(laps)
       IN  /\ workLaps' = lists.work
           /\ regularRecoveryLaps' = lists.regular
           /\ betweenSetRecoveryLaps' = lists.between
    /\ outcome' = calculateRepetitionStructure(laps)
    /\ cpc' = "done"
    /\ UNCHANGED <<laps, patVars, roundVars, laterVars>>

InitAnalyze ==
    /\ activityIn \in Activities
    /\ version \in {"paceZone", "repetition"}
    /\ requests = 0 /\ calculationResult = Null /\ analysis = NotRun
    /\ firstAnalysis = "none" /\ apc = "start"
    /\ IdlePattern /\ IdleRound /\ IdleRep /\ IdleFormat /\ IdleDescription
    /\ IdleService

\* analyzeWorkout(activity) of lines 350-475, up to its return for an easy
\* run or to its first request to the external model
AnalyzeWorkout ==
    /\ apc = "start" /\ version = "paceZone"
    /\ IF isEasyRun(activityIn)
       THEN /\ analysis' = Return(AggregateResult(activityIn))
            /\ apc' = "done"
            /\ UNCHANGED requests
       ELSE /\ requests' = requests + 1
            /\ apc' = "awaiting"
            /\ UNCHANGED analysis
    /\ UNCHANGED <<activityIn, version, calculationResult, firstAnalysis,
                   patVars, roundVars, repVars, serviceVars, fmtVars, descVars>>

\* analyzeWorkout(activity) of lines 860-956, up to its first request
AnalyzeWorkoutRepetition ==
    /\ apc = "start" /\ version = "repetition"
    /\ requests' = requests + 1
    /\ apc' = "awaiting"
    /\ UNCHANGED <<activityIn, version, calculationResult, analysis,
                   firstAnalysis, patVars, roundVars, repVars, serviceVars, fmtVars,
                   descVars>>

\* openai.chat.completions.create rejects: the exception leaves analyzeWorkout
RequestFails ==
    /\ apc = "awaiting"
    /\ analysis' = Throw("APIConnectionError")
    /\ apc' = "done"
    /\ UNCHANGED <<activityIn, version, requests, calculationResult,
                   firstAnalysis, patVars, roundVars, repVars, serviceVars, fmtVars,
                   descVars>>

\* the response does not ask for tools (finish_reason is not 'tool_calls',
\* or message.tool_calls is missing): the loop ends
ModelStops ==
    /\ apc = "awaiting"
    /\ analysis' = AfterLoop(version, activityIn, calculationResult)
    /\ apc' = "done"
    /\ UNCHANGED <<activityIn, version, requests, calculationResult,
                   firstAnalysis, patVars, roundVars, repVars, serviceVars, fmtVars,
                   descVars>>

\* the response asks for toolCalls: they are run in order, then the next
\* request is sent unless one of them ended the call
ModelCallsTools(toolCalls) ==
    /\ apc = "awaiting"
    /\ LET r == RunToolCalls(version, toolCalls, calculationResult)
       IN  IF r.kind = "continue"
           THEN /\ requests < MaxRequests
                /\ calculationResult' = r.calculationResult
                /\ requests' = requests + 1
                /\ UNCHANGED <<analysis, apc>>
           ELSE /\ analysis' = r
                /\ apc' = "done"
                /\ UNCHANGED <<calculationResult, requests>>
    /\ UNCHANGED <<activityIn, version, firstAnalysis, patVars, roundVars,
                   repVars, serviceVars, fmtVars, descVars>>

\* the same activity is analysed once more
AnalyzeAgain ==
    /\ apc = "done" /\ firstAnalysis = "none"
    /\ firstAnalysis' = IF analysis.kind = "return" THEN analysis.result.type
                         ELSE "throw"
    /\ analysis' = NotRun /\ calculationResult' = Null /\ requests' = 0
    /\ apc' = "start"
    /\ formatIn' = NotRun /\ summaryOut' = NotRun /\ fpc' = "idle"
    /\ UNCHANGED <<activityIn, version, calcCall, metricsOut, paceIn, paceOut,
                   patVars, roundVars, repVars, serviceVars, descVars>>

\* const summary = formatWorkoutSummary(result) on the result returned
Summarise ==
    /\ apc = "done" /\ analysis.kind = "return" /\ fpc = "idle"
    /\ formatIn' = analysis.result
    /\ summaryOut' = CallFormatWorkoutSummary(analysis.result)
    /\ fpc' = "formatted"
    /\ UNCHANGED <<calcCall, metricsOut, paceIn, paceOut, analyzeVars, patVars,
                   roundVars, repVars, serviceVars, descVars>>

NextAnalyze ==
    \/ AnalyzeWorkout
    \/ AnalyzeWorkoutRepetition
    \/ RequestFails
    \/ ModelStops
    \/ \E toolCalls \in SeqUpTo(ToolCallsFor(activityIn), MaxCalls) :
           Len(toolCalls) > 0 /\ ModelCallsTools(toolCalls)
    \/ AnalyzeAgain
    \/ Summarise

SpecAnalyze == InitAnalyze /\ [][NextAnalyze]_vars

InitMetrics ==
    /\ \/ calcCall \in CalculatorCalls /\ paceIn = Null
       \/ calcCall = Null /\ paceIn \in PaceInputs
    /\ metricsOut = NotRun /\ formatIn = NotRun /\ summaryOut = NotRun
    /\ paceOut = NotRun /\ fpc = "start"
    /\ IdlePattern /\ IdleRound /\ IdleRep /\ IdleAnalyze /\ IdleDescription
    /\ IdleService

\* calculateRunMetrics(params)
CalculateRun ==
    /\ fpc = "start" /\ calcCall # Null
    /\ calcCall.name = "calculateRunMetrics"
    /\ metricsOut' = calculateRunMetrics(calcCall.arguments)
    /\ fpc' = "calculated"
    /\ UNCHANGED <<calcCall, formatIn, summaryOut, paceIn, paceOut, patVars,
                   roundVars, repVars, serviceVars, analyzeVars, descVars>>

\* calculateTempoBlockMetrics({ laps })
CalculateTempoBlock ==
    /\ fpc = "start" /\ calcCall # Null
    /\ calcCall.name = "calculateTempoBlockMetrics"
    /\ metricsOut' = calculateTempoBlockMetrics(calcCall.arguments.laps)
    /\ fpc' = "calculated"
    /\ UNCHANGED <<calcCall, formatIn, summaryOut, paceIn, paceOut, patVars,
                   roundVars, repVars, serviceVars, analyzeVars, descVars>>

\* calculateIntervalMetrics({ laps })
CalculateInterval ==
    /\ fpc = "start" /\ calcCall # Null
    /\ calcCall.name = "calculateIntervalMetrics"
    /\ metricsOut' = calculateIntervalMetrics(calcCall.arguments.laps)
    /\ fpc' = "calculated"
    /\ UNCHANGED <<calcCall, formatIn, summaryOut, paceIn, paceOut, patVars,
                   roundVars, repVars, serviceVars, analyzeVars, descVars>>

\* formatWorkoutSummary of the metrics under the type and structure of the
\* call
FormatMetrics ==
    /\ fpc = "calculated"
    /\ formatIn' =
           IF calcCall.name = "calculateIntervalMetrics"
           THEN WorkoutResult(calcCall.type, calcCall.structure, Null,
                              metricsOut, Null)
           ELSE WorkoutResult(calcCall.type, calcCall.structure, metricsOut,
                              Null, Null)
    /\ summaryOut' = CallFormatWorkoutSummary(formatIn')
    /\ fpc' = "formatted"
    /\ UNCHANGED <<calcCall, metricsOut, paceIn, paceOut, patVars, roundVars,
                   repVars, serviceVars, analyzeVars, descVars>>

\* formatPace(paceIn)
FormatPace ==
    /\ fpc = "start" /\ paceIn # Null
    /\ paceOut' = formatPace(paceIn)
    /\ fpc' = "formatted"
    /\ UNCHANGED <<calcCall, metricsOut, formatIn, summaryOut, paceIn,
                   patVars, roundVars, repVars, serviceVars, analyzeVars, descVars>>

NextMetrics ==
    \/ CalculateRun
    \/ CalculateTempoBlock
    \/ CalculateInterval
    \/ FormatMetrics
    \/ FormatPace

SpecMetrics == InitMetrics /\ [][NextMetrics]_vars

InitSummary ==
    /\ formatIn \in SummaryInputs
    /\ calcCall = Null /\ metricsOut = NotRun /\ summaryOut = NotRun
    /\ paceIn = Null /\ paceOut = NotRun /\ fpc = "start"
    /\ IdlePattern /\ IdleRound /\ IdleRep /\ IdleAnalyze /\ IdleDescription
    /\ IdleService

\* formatWorkoutSummary(formatIn)
FormatSummary ==
    /\ fpc = "start" /\ formatIn # NotRun
    /\ summaryOut' = CallFormatWorkoutSummary(formatIn)
    /\ fpc' = "formatted"
    /\ UNCHANGED <<calcCall, metricsOut, formatIn, paceIn, paceOut, patVars,
                   roundVars, repVars, serviceVars, analyzeVars, descVars>>

NextSummary == FormatSummary

SpecSummary == InitSummary /\ [][NextSummary]_vars

InitDescription ==
    /\ description \in Descriptions
    /\ summaryText \in Summaries
    /\ updated = NotRun /\ dpc = "start"
    /\ summary2 = <<>> /\ replaced = NotRun /\ direct = NotRun
    /\ IdlePattern /\ IdleRound /\ IdleRep /\ IdleAnalyze /\ IdleFormat
    /\ IdleService

\* applyRunNoteToDescription(description, summaryText)
ApplyRunNote ==
    /\ dpc = "start"
    /\ updated' = Text(applyRunNoteToDescription(description, summaryText))
    /\ dpc' = "applied"
    /\ UNCHANGED <<description, summaryText, summary2, replaced, direct,
                   patVars, roundVars, repVars, serviceVars, analyzeVars, fmtVars>>

\* the description written becomes the existing description of the next
\* update with the same summary
ApplyRunNoteAgain ==
    /\ dpc = "applied"
    /\ description' = updated
    /\ updated' = Text(applyRunNoteToDescription(updated, summaryText))
    /\ dpc' = "reapplied"
    /\ UNCHANGED <<summaryText, summary2, replaced, direct, patVars,
                   roundVars, repVars, serviceVars, analyzeVars, fmtVars>>

\* the description written is annotated again with another summary
\* (replaced); direct is the original description annotated with that
\* summary at once
ApplyRunNoteOver(s2) ==
    /\ dpc = "applied"
    /\ summary2' = s2
    /\ replaced' = Text(applyRunNoteToDescription(updated, s2))
    /\ direct' = Text(applyRunNoteToDescription(description, s2))
    /\ dpc' = "replaced"
    /\ UNCHANGED <<description, summaryText, updated, patVars, roundVars,
                   repVars, serviceVars, analyzeVars, fmtVars>>

NextDescription ==
    \/ ApplyRunNote
    \/ ApplyRunNoteAgain
    \/ \E s2 \in Summaries : ApplyRunNoteOver(s2)

SpecDescription == InitDescription /\ [][NextDescription]_vars

(***************************************************************************)
(* The webhook handler, POST (webhook.ts lines 396-438), one action for    *)
(* each stretch of the handler between two awaits.                         *)
(***************************************************************************)
InitWebhook ==
    /\ req \in WebhookBodies
    /\ tokenTable \in TokenRows
    /\ stravaDescription \in ActivityDescriptions
    /\ tokenRec = Null /\ act = NotRun /\ llmSummary = <<>>
    /\ nextDescription = NotRun /\ retry = NoRetry /\ response = NotRun
    /\ wpc = "start"
    /\ IdlePattern /\ IdleRound /\ IdleRep /\ IdleAnalyze /\ IdleFormat
    /\ IdleDescription /\ IdleOAuth /\ IdlePreDetect

WebhookOthers ==
    <<patVars, roundVars, repVars, analyzeVars, fmtVars, descVars, oauthVars,
      preVars>>

\* the handler returns: the catch clause for an error thrown inside the try
Caught(err) ==
    /\ response' = Catch(err)
    /\ wpc' = "done"

\* req.json() and the filter on the kind of event
ReceiveEvent ==
    /\ wpc = "start"
    /\ IF req.json = "unparsable"
       THEN Caught(Err("SyntaxError", 0))
       ELSE IF req.object_type # "activity" \/ req.aspect_type # "create"
       THEN response' = Respond(200) /\ wpc' = "done"
       ELSE wpc' = "ensure" /\ UNCHANGED response
    /\ UNCHANGED <<req, tokenTable, tokenRec, act, llmSummary,
                   nextDescription, stravaDescription, retry, WebhookOthers>>

\* ensureValidTokens(athleteId), then the call of withTokenRetry for
\* getActivity; refresh is how the refresh of an expired row ends
EnsureValidTokens(refresh) ==
    /\ wpc = "ensure"
    /\ IF tokenTable = Null
       THEN /\ refresh = Null
            /\ Caught(Err("Error", 0))
            /\ UNCHANGED <<tokenTable, tokenRec, retry>>
       ELSE IF isExpired(tokenTable.expires_at)
       THEN IF refresh = Null
            THEN /\ tokenTable' = Refreshed(tokenTable)
                 /\ tokenRec' = Refreshed(tokenTable)
                 /\ retry' = RetryStart("getActivity", Refreshed(tokenTable))
                 /\ wpc' = "get"
                 /\ UNCHANGED response
            ELSE /\ Caught(refresh)
                 /\ UNCHANGED <<tokenTable, tokenRec, retry>>
       ELSE /\ refresh = Null
            /\ tokenRec' = tokenTable
            /\ retry' = RetryStart("getActivity", tokenTable)
            /\ wpc' = "get"
            /\ UNCHANGED <<tokenTable, response>>
    /\ UNCHANGED <<req, act, llmSummary, nextDescription, stravaDescription,
                   WebhookOthers>>

\* what a successful call of the operation does at Strava
Operated(op) ==
    IF op = "updateActivityDescription"
    THEN stravaDescription' = nextDescription
    ELSE UNCHANGED stravaDescription

\* withTokenRetry: operation(tokenRow.access_token)
FirstAttempt(result) ==
    /\ retry.phase = "first"
    /\ LET r == [retry EXCEPT !.calls =
                     <<[token |-> retry.tokenRow.access_token,
                        error |-> result]>>]
       IN  IF result = Null
           THEN /\ retry' = [r EXCEPT !.phase = "returned",
                                      !.out = retry.tokenRow]
                /\ Operated(retry.op)
           ELSE /\ retry' = AfterFirstError(r, result)
                /\ UNCHANGED stravaDescription
    /\ UNCHANGED <<req, tokenTable, tokenRec, act, llmSummary,
                   nextDescription, response, wpc, WebhookOthers>>

\* withTokenRetry: refreshTokens(tokenRow), which saves the row it returns
RefreshTokens(result) ==
    /\ retry.phase = "refresh"
    /\ IF result = Null
       THEN /\ tokenTable' = Refreshed(retry.tokenRow)
            /\ retry' = [retry EXCEPT !.refreshes = @ + 1,
                                      !.phase = "second",
                                      !.out = Refreshed(retry.tokenRow)]
       ELSE /\ retry' = [retry EXCEPT !.refreshes = @ + 1,
                                      !.phase = "thrown", !.error = result]
            /\ UNCHANGED tokenTable
    /\ UNCHANGED <<req, tokenRec, act, llmSummary, nextDescription,
                   stravaDescription, response, wpc, WebhookOthers>>

\* withTokenRetry: operation(refreshedTokenRow.access_token)
SecondAttempt(result) ==
    /\ retry.phase = "second"
    /\ LET r == [retry EXCEPT !.calls =
                     Append(@, [token |-> retry.out.access_token,
                                error |-> result])]
       IN  IF result = Null
           THEN /\ retry' = [r EXCEPT !.phase = "returned"]
                /\ Operated(retry.op)
           ELSE /\ retry' = [r EXCEPT !.phase = "thrown", !.error = result,
                                      !.out = Null]
                /\ UNCHANGED stravaDescription
    /\ UNCHANGED <<req, tokenTable, tokenRec, act, llmSummary,
                   nextDescription, response, wpc, WebhookOthers>>

\* the handler after withTokenRetry(getActivity)
AfterGetActivity ==
    /\ wpc = "get"
    /\ retry.phase \in {"returned", "thrown"}
    /\ IF retry.phase = "thrown"
       THEN Caught(retry.error) /\ UNCHANGED <<act, tokenRec>>
       ELSE /\ act' = stravaDescription
            /\ tokenRec' = retry.out
            /\ wpc' = "llm"
            /\ UNCHANGED response
    /\ UNCHANGED <<req, tokenTable, llmSummary, nextDescription,
                   stravaDescription, retry, WebhookOthers>>

\* getRunNoteSummaryFromOpenAI(act), applyRunNoteTopLLMSafe and the test
\* next !== current; failed is whether the call of the model throws
Summarize(content, failed) ==
    /\ wpc = "llm"
    /\ IF failed
       THEN /\ content = Null
            /\ Caught(Err("Error", 0))
            /\ UNCHANGED <<llmSummary, nextDescription, retry>>
       ELSE LET current == IF act = Null THEN Text(<<>>) ELSE act
                next == Text(applyRunNoteTopLLMSafe(current,
                                                    FinalMessage(content)))
            IN  /\ llmSummary' = FinalMessage(content)
                /\ nextDescription' = next
                /\ IF next # current
                   THEN /\ retry' = RetryStart("updateActivityDescription",
                                               tokenRec)
                        /\ wpc' = "put"
                        /\ UNCHANGED response
                   ELSE /\ response' = Respond(200)
                        /\ wpc' = "done"
                        /\ UNCHANGED retry
    /\ UNCHANGED <<req, tokenTable, tokenRec, act, stravaDescription,
                   WebhookOthers>>

\* the handler after withTokenRetry(updateActivityDescription)
AfterUpdate ==
    /\ wpc = "put"
    /\ retry.phase \in {"returned", "thrown"}
    /\ IF retry.phase = "thrown"
       THEN Caught(retry.error) /\ UNCHANGED tokenRec
       ELSE /\ tokenRec' = retry.out
            /\ response' = Respond(200)
            /\ wpc' = "done"
    /\ UNCHANGED <<req, tokenTable, act, llmSummary, nextDescription,
                   stravaDescription, retry, WebhookOthers>>

NextWebhook ==
    \/ ReceiveEvent
    \/ \E refresh \in StravaOutcomes : EnsureValidTokens(refresh)
    \/ \E result \in StravaOutcomes : FirstAttempt(result)
    \/ \E result \in StravaOutcomes : RefreshTokens(result)
    \/ \E result \in StravaOutcomes : SecondAttempt(result)
    \/ AfterGetActivity
    \/ \E content \in ModelContents, failed \in BOOLEAN :
           Summarize(content, failed)
    \/ AfterUpdate

SpecWebhook == InitWebhook /\ [][NextWebhook]_vars

(***************************************************************************)
(* authConnect saves a state once; up to MaxCallbacks authCallback         *)
(* requests run concurrently, one action for each stretch between awaits.  *)
(***************************************************************************)
InitOAuth ==
    /\ stateTable = Null /\ clock = 0 /\ opc = "unsaved"
    /\ \E n \in 1..MaxCallbacks : callbacks \in [1..n -> CallbackRequests]
    /\ IdlePattern /\ IdleRound /\ IdleRep /\ IdleAnalyze /\ IdleFormat
    /\ IdleDescription /\ IdleWebhook /\ IdlePreDetect

OAuthOthers ==
    <<patVars, roundVars, repVars, analyzeVars, fmtVars, descVars, preVars, req,
      tokenRec, act, llmSummary, nextDescription, stravaDescription, retry,
      response, wpc>>

\* authConnect: generateState() and saveState(state)
SaveState ==
    /\ opc = "unsaved"
    /\ stateTable' = [rowKey |-> "s", timestamp |-> clock]
    /\ opc' = "saved"
    /\ UNCHANGED <<clock, callbacks, tokenTable, OAuthOthers>>

\* time passes
Tick ==
    /\ clock < MaxTicks * (StateLifetime \div 2)
    /\ clock' = clock + StateLifetime \div 2
    /\ UNCHANGED <<stateTable, callbacks, opc, tokenTable, OAuthOthers>>

\* authCallback: the test of the state parameter and the call of
\* validateAndConsumeState
CheckState(i) ==
    /\ i \in DOMAIN callbacks
    /\ callbacks[i].pc = "start"
    /\ callbacks' = [callbacks EXCEPT ![i] =
           IF callbacks[i].state = ""
           THEN [@ EXCEPT !.pc = "done", !.status = 400]
           ELSE [@ EXCEPT !.pc = "get",
                          !.trace = <<"state", "validate">>,
                          !.afterTrue = \E j \in DOMAIN callbacks :
                                            callbacks[j].valid = "true"]]
    /\ UNCHANGED <<stateTable, clock, opc, tokenTable, OAuthOthers>>

\* what the handler does with the value returned by validateAndConsumeState
Validated(c, isValidState) ==
    LET status == AfterValidation(isValidState, c.code)
    IN  [c EXCEPT !.valid = IF isValidState THEN "true" ELSE "false",
                  !.status = status,
                  !.pc = IF status = 0 THEN "exchange" ELSE "done",
                  !.trace = IF status = 0 THEN Append(@, "code") ELSE @]

\* validateAndConsumeState: getEntity and the computation of the age
GetEntity(i) ==
    /\ i \in DOMAIN callbacks
    /\ callbacks[i].pc = "get"
    /\ LET entity == getEntity(stateTable, callbacks[i].state)
       IN  callbacks' = [callbacks EXCEPT ![i] =
               IF entity.kind = "throw"
               THEN Validated(@, FALSE)
               ELSE [@ EXCEPT !.pc = "delete",
                              !.timestamp = entity.result,
                              !.age = clock - entity.result]]
    /\ UNCHANGED <<stateTable, clock, opc, tokenTable, OAuthOthers>>

\* validateAndConsumeState: deleteEntity and the return
DeleteEntity(i, failed) ==
    /\ i \in DOMAIN callbacks
    /\ callbacks[i].pc = "delete"
    /\ LET deleted == deleteEntity(stateTable, callbacks[i].state, failed)
       IN  /\ stateTable' = deleted.table
           /\ callbacks' = [callbacks EXCEPT ![i] =
                  Validated(@, ~deleted.thrown
                               /\ ~(callbacks[i].age > StateLifetime))]
    /\ UNCHANGED <<clock, opc, tokenTable, OAuthOthers>>

\* authCallback: exchangeCodeForToken(code); a failure leaves the handler
ExchangeCode(i, failed) ==
    /\ i \in DOMAIN callbacks
    /\ callbacks[i].pc = "exchange"
    /\ callbacks' = [callbacks EXCEPT ![i] =
           IF failed
           THEN [@ EXCEPT !.pc = "thrown", !.trace = Append(@, "exchange")]
           ELSE [@ EXCEPT !.pc = "save", !.trace = Append(@, "exchange")]]
    /\ UNCHANGED <<stateTable, clock, opc, tokenTable, OAuthOthers>>

\* authCallback: saveTokens(row) and the response
SaveTokens(i) ==
    /\ i \in DOMAIN callbacks
    /\ callbacks[i].pc = "save"
    /\ tokenTable' = TokenRow(1, 1, Now + 21600)
    /\ callbacks' = [callbacks EXCEPT ![i] =
           [@ EXCEPT !.pc = "done", !.status = 200,
                     !.trace = Append(@, "saveTokens")]]
    /\ UNCHANGED <<stateTable, clock, opc, OAuthOthers>>

NextOAuth ==
    \/ SaveState
    \/ Tick
    \/ \E i \in 1..MaxCallbacks : CheckState(i)
    \/ \E i \in 1..MaxCallbacks : GetEntity(i)
    \/ \E i \in 1..MaxCallbacks, failed \in BOOLEAN : DeleteEntity(i, failed)
    \/ \E i \in 1..MaxCallbacks, failed \in BOOLEAN : ExchangeCode(i, failed)
    \/ \E i \in 1..MaxCallbacks : SaveTokens(i)

SpecOAuth == InitOAuth /\ [][NextOAuth]_vars

(***************************************************************************)
(* preDetectEasyRun applied to an activity.                                *)
(***************************************************************************)
InitPreDetect ==
    /\ preActivity \in PreDetectActivities
    /\ preDetection = NotRun /\ qpc = "start"
    /\ IdlePattern /\ IdleRound /\ IdleRep /\ IdleAnalyze /\ IdleFormat
    /\ IdleDescription /\ IdleWebhook /\ IdleOAuth

\* preDetectEasyRun(preActivity)
PreDetect ==
    /\ qpc = "start"
    /\ preDetection' = preDetectEasyRun(preActivity)
    /\ qpc' = "detected"
    /\ UNCHANGED <<preActivity, patVars, roundVars, repVars, analyzeVars,
                   fmtVars, descVars, hookVars, oauthVars>>

NextPreDetect == PreDetect

SpecPreDetect == InitPreDetect /\ [][NextPreDetect]_vars

NextPattern == Find \/ \E t \in 1..MaxLen : FindWithPartialTail(t)
NextRound   == Round \/ RoundAgain
NextRep     == Calculate

SpecPattern == InitPattern /\ [][NextPattern]_vars
SpecRound   == InitRound /\ [][NextRound]_vars
SpecRep     == InitRep /\ [][NextRep]_vars

(***************************************************************************)
(* Properties of findRepeatingPattern (SpecPattern)                        *)
(***************************************************************************)
PatternSearched == ppc \in {"found", "appended"}

\* a is cut into len-sized chunks that all equal a[1..len], a shorter last
\* chunk being a prefix of a[1..len]
ChunksRepeat(a, len) ==
    \A j \in 1..Len(a) : a[j] = a[((j - 1) % len) + 1]

QualifyingLens(a) == {len \in 1..(Len(a) \div 2) : ChunksRepeat(a, len)}

SetMin(S) == CHOOSE x \in S : \A y \in S : x <= y

RECURSIVE Repeat(_, _)
Repeat(u, k) == IF k = 0 THEN <<>> ELSE u \o Repeat(u, k - 1)

\* C1: findRepeatingPattern(values) returns the first len values and
\* floor(n / len) for the smallest len in 1..floor(n/2) whose chunks all repeat
\* the first one (a shorter last chunk being a prefix of it), and null exactly
\* when there is no such len.
C1_SmallestRepeatingUnit ==
    PatternSearched =>
        LET good == QualifyingLens(arr)
        IN  IF good = {} THEN found = Null
            ELSE found = [kind |-> "pattern",
                          pattern |-> SubSeq(arr, 1, SetMin(good)),
                          sets |-> Len(arr) \div SetMin(good)]

\* a pattern of two values or more, found in an array that ends in an
\* unfinished repetition
C1_Witness ==
    /\ ppc = "found" /\ found # Null
    /\ Len(found.pattern) >= 2
    /\ Len(arr) % Len(found.pattern) # 0

\* the divisors d of Len(u) such that u is Len(u)/d copies of its first d values
UnitDivisors(u) ==
    {d \in 1..Len(u) : Len(u) % d = 0 /\ u = Repeat(SubSeq(u, 1, d), Len(u) \div d)}

\* C2: for k >= 2 copies of a unit U of length L, the result is not null, its
\* pattern length p divides L, the pattern is the shortest unit that U is made
\* of whole copies of (U itself if there is no shorter one), and sets = k*L/p.
C2_CopiesOfUnit ==
    ppc = "found" =>
        \A L \in 1..Len(arr) :
            LET U == SubSeq(arr, 1, L)
                k == Len(arr) \div L
            IN  (Len(arr) % L = 0 /\ k >= 2 /\ arr = Repeat(U, k)) =>
                    /\ found # Null
                    /\ L % Len(found.pattern) = 0
                    /\ Len(found.pattern) = SetMin(UnitDivisors(U))
                    /\ found.pattern = SubSeq(U, 1, Len(found.pattern))
                    /\ found.sets = (k * L) \div Len(found.pattern)

\* two copies of a unit of four values that is itself two copies of two values
C2_Witness ==
    /\ ppc = "found" /\ Len(arr) = 8
    /\ arr = Repeat(SubSeq(arr, 1, 4), 2)
    /\ found # Null /\ Len(found.pattern) = 2 /\ found.sets = 4

\* C3: after a proper prefix of the pattern is appended to whole repetitions
\* of it, the same pattern is found and the count of repetitions is not
\* smaller; the partial tail is not counted either, so the count is the same.
C3_PartialTailKeepsPattern ==
    ppc = "appended" =>
        /\ found # Null
        /\ found.pattern = prev.pattern
        /\ found.sets >= prev.sets
        /\ found.sets = prev.sets

\* a tail of two values appended to repetitions of a pattern of three
C3_Witness ==
    /\ ppc = "appended" /\ found # Null
    /\ Len(prev.pattern) = 3
    /\ Len(arr) = prev.sets * 3 + 2

(***************************************************************************)
(* Properties of roundToStandardDistance (SpecRound)                       *)
(***************************************************************************)
Ladder == {100, 200, 300, 400, 600, 800, 1000, 1200, 1600}

\* the ladder value nearest to m, the smaller of two equally near ones
NearestOnLadder(m) ==
    CHOOSE v \in Ladder : \A w \in Ladder :
        \/ Abs(m.num - v * m.den) < Abs(m.num - w * m.den)
        \/ Abs(m.num - v * m.den) = Abs(m.num - w * m.den) /\ v <= w

\* h is a multiple of 100 and no multiple of 100 is nearer to m
NearestHundred(m, h) ==
    h % 100 = 0 /\ 2 * Abs(m.num - h * m.den) <= 100 * m.den

\* C4: for a positive distance the result is the nearest ladder value (the
\* smaller of two equally near) if it is within 15% of the distance, else the
\* distance rounded to the nearest multiple of 100; round(205) = 200,
\* round(390) = 400, round(550) = 600, round(700) = 600.
C4_NearestStandardOrHundred ==
    (rpc = "rounded" /\ meters.num > 0) =>
        LET v == NearestOnLadder(meters)
        IN  /\ IF 100 * Abs(meters.num - v * meters.den) < 15 * meters.num
               THEN rounded = v
               ELSE NearestHundred(meters, rounded)
            /\ meters = Whole(205) => rounded = 200
            /\ meters = Whole(390) => rounded = 400
            /\ meters = Whole(550) => rounded = 600
            /\ meters = Whole(700) => rounded = 600

\* 700 m, as near to 600 as to 800, has been rounded
C4_Witness == rpc = "rounded" /\ meters = Whole(700) /\ rounded = 600

\* C5: the call never evaluates a division by zero: for meters = 0 the zero
\* case is guarded and the result is 0.
C5_ZeroIsGuarded ==
    (rpc = "rounded" /\ meters.num = 0) => (rounded = 0 /\ ~divZero)

(***************************************************************************)
(* Properties of calculateRepetitionStructure (SpecRep)                    *)
(***************************************************************************)
\* the criteria in the words of the classification rules
FastShort(lap) ==
    /\ lap.average_speed > 430
    /\ lap.distance.num >= 180 * lap.distance.den
    /\ lap.distance.num <= 600 * lap.distance.den
SlowShort(lap) ==
    /\ lap.average_speed < 350
    /\ lap.distance.num >= 150 * lap.distance.den
    /\ lap.distance.num <= 600 * lap.distance.den
SlowLong(lap) ==
    /\ lap.average_speed < 350
    /\ lap.distance.num > 600 * lap.distance.den
    /\ lap.distance.num <= 2000 * lap.distance.den

InList(list, i) == \E k \in 1..Len(list) : list[k] = i
Occurrences(list, i) == Cardinality({k \in 1..Len(list) : list[k] = i})
Listed(i) ==
    InList(workLaps, i) \/ InList(regularRecoveryLaps, i)
        \/ InList(betweenSetRecoveryLaps, i)

\* laps with every lap that is in none of the three lists replaced by a
\* steady 1000 m lap
SteadyLap == Lap(100000, 400)
WithUnlistedReplaced ==
    [j \in 1..Len(laps) |-> IF Listed(j - 1) THEN laps[j] ELSE SteadyLap]

\* C6: a lap index is in the work list iff the lap is fast and 180..600 m, in
\* the regular-recovery list iff it is slow and 150..600 m, in at most one of
\* the three lists, and the laps in none of them contribute nothing to the
\* result.
C6_OneRolePerLap ==
    cpc = "done" =>
        /\ \A i \in 0..(Len(laps) - 1) :
              /\ InList(workLaps, i) <=> FastShort(laps[i + 1])
              /\ InList(regularRecoveryLaps, i) <=> SlowShort(laps[i + 1])
              /\ Occurrences(workLaps, i) + Occurrences(regularRecoveryLaps, i)
                     + Occurrences(betweenSetRecoveryLaps, i) <= 1
        /\ outcome = calculateRepetitionStructure(WithUnlistedReplaced)

\* every role has been given at least once, and two laps are in no list
C6_Witness ==
    /\ cpc = "done" /\ outcome.kind = "return"
    /\ Len(workLaps) > 0 /\ Len(regularRecoveryLaps) > 0
    /\ Len(betweenSetRecoveryLaps) > 0
    /\ Cardinality({i \in 0..(Len(laps) - 1) : ~Listed(i)}) >= 2
    /\ laps # WithUnlistedReplaced

\* C7: a lap is a between-set recovery only if it is slow, 600 < distance <=
\* 2000, not the first lap, not one of the last three, with a work lap before
\* it and a work lap after it; a slow long lap at the start or the end is not
\* one and does not raise the set count.
C7_BetweenSetIsInterior ==
    cpc = "done" =>
        /\ \A k \in 1..Len(betweenSetRecoveryLaps) :
              LET i == betweenSetRecoveryLaps[k]
              IN  /\ SlowLong(laps[i + 1])
                  /\ i > 0
                  /\ i < Len(laps) - 3
                  /\ \E j \in 0..(i - 1) : FastShort(laps[j + 1])
                  /\ \E j \in (i + 1)..(Len(laps) - 1) : FastShort(laps[j + 1])
        /\ outcome.kind = "return" =>
              /\ Len(betweenSetRecoveryLaps) > 0 =>
                    outcome.sets = Len(betweenSetRecoveryLaps) + 1
              /\ Len(betweenSetRecoveryLaps) = 0 =>
                    /\ outcome.between_set_recovery_distance_meters = 0
                    /\ outcome.sets =
                          IF IsArray(outcome.work_distance_meters)
                          THEN Len(workLaps) \div outcome.reps_per_set
                          ELSE 1

\* a slow long first lap and a slow long lap among the last three, neither
\* counted, around a between-set recovery that is
C7_Witness ==
    /\ cpc = "done" /\ outcome.kind = "return"
    /\ Len(laps) >= 6
    /\ SlowLong(laps[1]) /\ SlowLong(laps[Len(laps)])
    /\ Len(betweenSetRecoveryLaps) = 1
    /\ outcome.sets = 2

\* C8: with no laps, or with no lap that is fast and 180..600 m, the call
\* throws and returns no metrics.
C8_NoWorkLapsThrows ==
    (cpc = "done" /\ \A j \in 1..Len(laps) : ~FastShort(laps[j])) =>
        outcome.kind = "throw"

\* the call has thrown on a lap list that holds a fast lap, too long for work
C8_Witness ==
    /\ cpc = "done" /\ outcome.kind = "throw"
    /\ \E j \in 1..Len(laps) : laps[j].average_speed > 430

\* the rounded distances of the laps of the work list
WorkLapDistances ==
    [k \in 1..Len(workLaps) |->
        roundToStandardDistance(laps[workLaps[k] + 1].distance)]

\* r is W / s rounded to the nearest integer
NearestInteger(r, W, s) == 2 * Abs(W - r * s) <= s

\* C9: with W >= 2 work laps of one rounded distance and b between-set
\* recoveries: work distance = that distance, sets = b + 1 if b > 0 else 1,
\* reps per set = W / sets rounded (W if b = 0); the 2 x (8 x 200 m) and the
\* 10 x 200 m workouts of the tests come out as such.
C9_UniformReps ==
    cpc = "done" =>
        LET W  == Len(workLaps)
            b  == Len(betweenSetRecoveryLaps)
            ds == WorkLapDistances
        IN  /\ (W >= 2 /\ \A k \in 1..W : ds[k] = ds[1]) =>
                  /\ outcome.kind = "return"
                  /\ outcome.work_distance_meters = Num(ds[1])
                  /\ outcome.sets = IF b > 0 THEN b + 1 ELSE 1
                  /\ NearestInteger(outcome.reps_per_set, W, outcome.sets)
                  /\ b = 0 => outcome.reps_per_set = W
            /\ laps = laps1 =>
                  /\ W = 16 /\ b = 1
                  /\ outcome.sets = 2 /\ outcome.reps_per_set = 8
                  /\ outcome.work_distance_meters = Num(200)
                  /\ outcome.between_set_recovery_distance_meters = 800
            /\ laps = laps2 =>
                  /\ W = 10 /\ b = 0
                  /\ outcome.sets = 1 /\ outcome.reps_per_set = 10

\* the 16 x 200 m workout split by an 800 m lap has been analysed
C9_Witness ==
    /\ cpc = "done" /\ laps = laps1
    /\ outcome.kind = "return" /\ outcome.sets = 2

\* C10: when the pattern found in the rounded work distances has more than
\* one value: work distance = the pattern, reps per set = its length, sets =
\* its repetitions if there is no between-set recovery, else their count + 1;
\* 400, 200, 200 three times and a single 400 give (400, 200, 200) x 3.
C10_LadderPattern ==
    cpc = "done" =>
        LET b  == Len(betweenSetRecoveryLaps)
            wp == findRepeatingPattern(WorkLapDistances)
        IN  /\ (wp # Null /\ Len(wp.pattern) > 1) =>
                  /\ outcome.kind = "return"
                  /\ outcome.work_distance_meters = Arr(wp.pattern)
                  /\ outcome.reps_per_set = Len(wp.pattern)
                  /\ wp.sets = Len(workLaps) \div Len(wp.pattern)
                  /\ outcome.sets = IF b = 0 THEN wp.sets ELSE b + 1
            /\ laps = laps3 =>
                  /\ WorkLapDistances =
                         <<400, 200, 200, 400, 200, 200, 400, 200, 200, 400>>
                  /\ outcome.work_distance_meters = Arr(<<400, 200, 200>>)
                  /\ outcome.sets = 3

\* the ladder workout of the tests has been analysed
C10_Witness ==
    /\ cpc = "done" /\ laps = laps3
    /\ outcome.kind = "return" /\ outcome.reps_per_set = 3

\* the rounded distances of the laps of the regular-recovery list
RecoveryLapDistances ==
    [k \in 1..Len(regularRecoveryLaps) |->
        roundToStandardDistance(laps[regularRecoveryLaps[k] + 1].distance)]

\* C11: the recovery distance is the repeating unit of the rounded recovery
\* distances when that unit has more than one value; else, with at least
\* one recovery lap, their mean rounded to a standard distance; else the
\* work distance (the first value of a ladder).  The between-set distance
\* is the rounded distance of the earliest between-set lap, or 0.
C11_RecoveryPreference ==
    (cpc = "done" /\ outcome.kind = "return") =>
        LET rs == RecoveryLapDistances
            rp == findRepeatingPattern(rs)
            wd == outcome.work_distance_meters
            bs == Range(betweenSetRecoveryLaps)
        IN  /\ outcome.recovery_distance_meters =
                  IF rp # Null /\ Len(rp.pattern) > 1
                  THEN Arr(rp.pattern)
                  ELSE IF Len(rs) > 0
                  THEN Num(roundToStandardDistance(Q(Sum(rs), Len(rs))))
                  ELSE IF IsArray(wd) THEN Num(wd.array[1]) ELSE wd
            /\ outcome.between_set_recovery_distance_meters =
                  IF bs = {} THEN 0
                  ELSE roundToStandardDistance(laps[SetMin(bs) + 1].distance)

\* recoveries alternating between two distances gave a recovery pattern
C11_Witness ==
    /\ cpc = "done" /\ outcome.kind = "return"
    /\ IsArray(outcome.recovery_distance_meters)
    /\ Len(regularRecoveryLaps) >= 4
    /\ ~IsArray(outcome.work_distance_meters)

(***************************************************************************)
(* Properties of analyzeWorkout (SpecAnalyze)                              *)
(***************************************************************************)
Analysed == apc = "done"

\* the activity has at least one lap and all its laps are in zone 1 or 2
AllLapsEasy ==
    /\ HasLaps(activityIn) /\ Len(activityIn.laps) >= 1
    /\ \A k \in 1..Len(activityIn.laps) : activityIn.laps[k].pace_zone \in {1, 2}

\* the activity has no laps: the field is absent or the list is empty
ZeroLaps == ~HasLaps(activityIn) \/ Len(activityIn.laps) = 0

\* calculateRunMetrics of the aggregate distance, time and heart rate
AggregateMetrics ==
    calculateRunMetrics(
        [distance_meters     |-> activityIn.distance,
         moving_time_seconds |-> activityIn.moving_time,
         average_heartrate   |-> activityIn.average_heartrate])

\* distance >= 16093.44 m or moving time >= 5400 s
TenMilesOrNinetyMinutes ==
    \/ activityIn.distance.num * 100 >= 1609344 * activityIn.distance.den
    \/ activityIn.moving_time.num >= 5400 * activityIn.moving_time.den

\* C12: the activity of 17714.6 m in 5930 s at heart rate 130 with all laps
\* in zone 1 or 2 is classified E by the pace-zone analyzeWorkout and its
\* summary is "E 11 mi @ 8:59/mi (HR 130)".
C12_EasyRunExample ==
    (activityIn = EasyRunExample1 /\ version = "paceZone" /\ Analysed
         /\ fpc = "formatted") =>
        /\ analysis.kind = "return"
        /\ analysis.result.type = "E"
        /\ summaryOut = Return("E 11 mi @ 8:59/mi (HR 130)")

C14_ZeroLapsIsEasy ==
    (Analysed /\ ZeroLaps) =>
        /\ analysis.kind = "return"
        /\ analysis.result.type = "E"
        /\ analysis.result.metrics = AggregateMetrics

\* C15: two calls of the pace-zone analyzeWorkout on the same activity that
\* both return a result return the same type.
C15_SameTypeTwice ==
    (version = "paceZone" /\ Analysed /\ analysis.kind = "return"
         /\ firstAnalysis \notin {"none", "throw"}) =>
        analysis.result.type = firstAnalysis

(***************************************************************************)
(* Properties of the metrics calculators and of formatPace (SpecMetrics)   *)
(***************************************************************************)
Calculated == fpc \in {"calculated", "formatted"} /\ calcCall # Null

\* the value is an exception raised, not a value returned
Raised(v) == "kind" \in DOMAIN v /\ v.kind = "throw"

\* the sum of a field over the laps of the call
RECURSIVE Total(_, _)
Total(ls, field) ==
    IF Len(ls) = 0 THEN Whole(0)
    ELSE JsAdd(ls[1][field], Total(Tail(ls), field))

\* the call computes a pace over no distance: a run of 0 m, or laps (or no
\* laps) whose distances add up to 0 m
ZeroDistanceCall ==
    IF calcCall.name = "calculateRunMetrics"
    THEN calcCall.arguments.distance_meters.num = 0
    ELSE Total(calcCall.arguments.laps, "distance").num = 0

\* C16: a pace computation over zero distance raises an error: neither
\* calculateRunMetrics with distance_meters = 0 nor calculateTempoBlockMetrics
\* or calculateIntervalMetrics with laps of zero total distance or no laps
\* returns a metrics record.
C16_ZeroDistanceRaises ==
    (Calculated /\ ZeroDistanceCall) => Raised(metricsOut)

\* C17: calculateTempoBlockMetrics of a non-empty lap list returns
\* distance_miles = total distance / 1609.344 and pace_seconds_per_mile =
\* total moving time / distance_miles; laps of 5011.28 m and 1238 s in total,
\* formatted as a continuous tempo, give "T 3.1 mi @ avg 6:38/mi".
C17_TempoBlockTotals ==
    (Calculated /\ calcCall.name = "calculateTempoBlockMetrics"
         /\ Len(calcCall.arguments.laps) > 0) =>
        LET ls   == calcCall.arguments.laps
            dist == Total(ls, "distance")
            time == Total(ls, "moving_time")
        IN  /\ metricsOut.distance_miles = JsDiv(dist, R(1609344, 1000))
            /\ metricsOut.pace_seconds_per_mile =
                   JsDiv(time, metricsOut.distance_miles)
            /\ (dist = R(501128, 100) /\ time = Whole(1238)
                    /\ fpc = "formatted") =>
                   summaryOut = Return("T 3.1 mi @ avg 6:38/mi")

\* the four laps of the tempo block have been summed and formatted
C17_Witness ==
    /\ fpc = "formatted" /\ calcCall # Null
    /\ calcCall.name = "calculateTempoBlockMetrics"
    /\ calcCall.arguments.laps = TempoBlockLaps
    /\ summaryOut = Return("T 3.1 mi @ avg 6:38/mi")

\* C18: formatPace of a non-negative pace returns "M:SS" with SS two digits
\* from 00 to 59 and M * 60 + SS the pace rounded to the nearest second.
C18_PaceIsMinutesAndSeconds ==
    (fpc = "formatted" /\ paceIn # Null) =>
        LET nearest == (2 * paceIn.num + paceIn.den) \div (2 * paceIn.den)
            M  == nearest \div 60
            SS == nearest % 60
        IN  paceOut = ToString(M) \o ":"
                          \o (IF SS < 10 THEN "0" ELSE "") \o ToString(SS)

(***************************************************************************)
(* Properties of formatWorkoutSummary (SpecSummary)                        *)
(***************************************************************************)
\* a result with repetition metrics has been formatted
RepetitionFormatted ==
    fpc = "formatted" /\ formatIn.repetition_metrics # Null

\* "{reps} x {work}m R w/{recovery}m jog"
SingleSetForm(rm) ==
    ToString(rm.reps_per_set) \o " x "
        \o DistanceToString(rm.work_distance_meters) \o "m R w/"
        \o DistanceToString(rm.recovery_distance_meters) \o "m jog"

\* "{sets} x({reps} x {work}m R w/{recovery}m jog) w/{trailing}m jog"
MultiSetForm(rm, trailing) ==
    ToString(rm.sets) \o " x(" \o SingleSetForm(rm) \o ") w/" \o trailing
        \o "m jog"

Applied == dpc \in {"applied", "reapplied"}

\* the lines of a text: the pieces between line feeds
RECURSIVE LinesOf(_)
LinesOf(s) ==
    IF \E k \in 1..Len(s) : s[k] = LF
    THEN LET k == CHOOSE i \in 1..Len(s) :
                      s[i] = LF /\ \A j \in 1..(i - 1) : s[j] # LF
         IN  <<SubSeq(s, 1, k - 1)>> \o LinesOf(SubSeq(s, k + 1, Len(s)))
    ELSE <<s>>

\* a line without its blanks at both ends / at its end
RECURSIVE Stripped(_)
Stripped(l) ==
    IF Len(l) > 0 /\ l[1] \in {" ", "\t", CR, LF} THEN Stripped(Tail(l))
    ELSE IF Len(l) > 0 /\ l[Len(l)] \in {" ", "\t", CR, LF}
    THEN Stripped(SubSeq(l, 1, Len(l) - 1))
    ELSE l

RECURSIVE RightStripped(_)
RightStripped(l) ==
    IF Len(l) > 0 /\ l[Len(l)] \in {" ", "\t", CR, LF}
    THEN RightStripped(SubSeq(l, 1, Len(l) - 1))
    ELSE l

IsBlank(l) == Stripped(l) = <<>>

\* the words joined by single blanks
RECURSIVE JoinWords(_)
JoinWords(ws) ==
    IF Len(ws) = 0 THEN <<>>
    ELSE IF Len(ws) = 1 THEN ws[1]
    ELSE ws[1] \o <<" ">> \o JoinWords(Tail(ws))

\* the summary on one line: its non-blank lines, stripped, joined by blanks
OneLine(s) ==
    LET ls == LinesOf(s)
    IN  JoinWords(SelectSeq([k \in 1..Len(ls) |-> Stripped(ls[k])],
                            LAMBDA l : l # <<>>))

\* l ends with word, letters compared without regard to case
EndsWithWord(l, word) ==
    /\ Len(l) >= Len(word)
    /\ \A k \in 1..Len(word) :
           ToLower(l[Len(l) - Len(word) + k]) = ToLower(word[k])

WithoutLast(l, n) == SubSeq(l, 1, Len(l) - n)

\* l ends with the marker: "--", "from" and "RunNote" in any case, with any
\* blanks between and after them
EndsWithTheMarker(l) ==
    LET a == RightStripped(l)
        b == RightStripped(WithoutLast(a, 7))
        c == RightStripped(WithoutLast(b, 4))
    IN  /\ EndsWithWord(a, <<"r", "u", "n", "n", "o", "t", "e">>)
        /\ EndsWithWord(b, <<"f", "r", "o", "m">>)
        /\ EndsWithWord(c, <<"-", "-">>)

\* the marker occurs somewhere in s
HoldsMarker(s) == \E k \in 1..Len(s) : EndsWithTheMarker(SubSeq(s, 1, k))

\* the lines of the existing description, a line ending at LF or CR LF
ExistingLines ==
    IF description = Null THEN <<>>
    ELSE LET ls == LinesOf(description.text)
         IN  [k \in 1..Len(ls) |->
                 IF k < Len(ls) /\ Len(ls[k]) > 0 /\ ls[k][Len(ls[k])] = CR
                 THEN WithoutLast(ls[k], 1) ELSE ls[k]]

\* C20: the first line of the text returned is the summary on one line
\* followed by the marker "--from RunNote", no other line ends with the
\* marker, and the other lines are exactly the non-blank lines of the
\* existing description that do not end with the marker, in their order.
C20_RunNoteOnTop ==
    Applied =>
        LET out == LinesOf(updated.text)
        IN  /\ out[1] = OneLine(summaryText) \o <<" ">> \o marker
            /\ \A k \in 2..Len(out) : ~EndsWithTheMarker(out[k])
            /\ SelectSeq(Tail(out), LAMBDA l : ~IsBlank(l))
                   = SelectSeq(ExistingLines,
                         LAMBDA l : ~IsBlank(l) /\ ~EndsWithTheMarker(l))

\* C20 as amended: the first line is the summary on one line, without the
\* markers it carried, followed by a blank and the marker; an empty line
\* follows; no other line ends with the marker; the lines after the empty
\* line are the non-blank lines of the existing description that do not end
\* with the marker, without the blanks at their ends, in their order (one
\* more empty line when there is none).
C20_RunNoteOnTopAmended ==
    Applied =>
        LET out  == LinesOf(updated.text)
            kept == SelectSeq(ExistingLines,
                        LAMBDA l : ~IsBlank(l) /\ ~EndsWithTheMarker(l))
        IN  /\ out[1] =
                   (IF HoldsMarker(OneLine(summaryText))
                    THEN Stripped(StripMarkersFrom(OneLine(summaryText), 1))
                    ELSE OneLine(summaryText)) \o <<" ">> \o marker
            /\ Len(out) >= 2 /\ out[2] = <<>>
            /\ \A k \in 2..Len(out) : ~EndsWithTheMarker(out[k])
            /\ SubSeq(out, 3, Len(out)) =
                   IF Len(kept) = 0 THEN <<<<>>>>
                   ELSE [k \in 1..Len(kept) |-> RightStripped(kept[k])]

\* a description with a device line that ends in a blank and an earlier
\* RunNote line in another spelling got a summary of two lines on top
C20_Witness ==
    /\ dpc = "applied"
    /\ description = Text(<<"V">> \o markerVariant \o <<CR, LF, "D", " ">>)
    /\ summaryText = <<"E", LF, "x">>
    /\ updated = Text(<<"E", " ", "x", " ">> \o marker \o <<LF, LF, "D">>)

\* the number of lines of a text that end with the marker
RunNoteLines(text) ==
    LET ls == LinesOf(text)
    IN  Cardinality({k \in 1..Len(ls) : EndsWithTheMarker(ls[k])})

\* C21: annotating an annotated description replaces the annotation: the
\* text for description d and summary s1, annotated again with s2, is the
\* text for d and s2; the same summary applied twice gives the text it gave
\* once; and the text holds exactly one RunNote line after each application.
C21_AnnotationReplaces ==
    /\ dpc = "replaced" =>
           /\ replaced = direct
           /\ RunNoteLines(replaced.text) = 1
    /\ dpc = "reapplied" =>
           /\ updated = description
           /\ RunNoteLines(updated.text) = 1
    /\ dpc = "applied" => RunNoteLines(updated.text) = 1

\* a description with a device line and an earlier RunNote line was
\* annotated with a two-line summary and then with a summary carrying the
\* marker
C21_Witness ==
    /\ dpc = "replaced"
    /\ description = Text(<<"V">> \o markerVariant \o <<CR, LF, "D", " ">>)
    /\ summaryText = <<"E", LF, "x">>
    /\ summary2 = <<"E", " ">> \o marker
    /\ replaced = Text(<<"E", " ">> \o marker \o <<LF, LF, "D">>)

(***************************************************************************)
(* Properties of the webhook handler and withTokenRetry (SpecWebhook)      *)
(***************************************************************************)
\* C22: whatever the body of the POST and whichever step fails, the handler
\* answers with status 200 and no exception leaves it: a response, once
\* given, is a response with status 200, and the handler is done exactly
\* when it has responded.
C22_AlwaysAcknowledged ==
    /\ wpc = "done" <=> response # NotRun
    /\ response # NotRun =>
           /\ response.kind = "response"
           /\ response.status = 200

\* a request for a create event of an athlete whose row had expired ended
\* after the second attempt to write the description failed with 500
C22_Witness ==
    /\ wpc = "done"
    /\ req = Event("object", "activity", "create")
    /\ tokenTable = TokenRow(3, 3, Now + 21600)
    /\ retry.op = "updateActivityDescription"
    /\ retry.phase = "thrown"
    /\ Len(retry.calls) = 2
    /\ retry.error = Err("AxiosError", 500)
    /\ response = Respond(200)

\* C23: an invocation of withTokenRetry runs the operation at most twice
\* and refreshTokens at most once; a second run happens only after the
\* first failed with 401 or 403 and uses the access token of the refreshed
\* row; any other error of the first run and any error of the second run is
\* thrown to the caller; the row returned is the refreshed row iff a
\* refresh happened, else the row passed in.
C23_RetryOnceAfterAuthFailure ==
    /\ Len(retry.calls) <= 2
    /\ retry.refreshes <= 1
    /\ Len(retry.calls) >= 1 =>
           retry.calls[1].token = retry.tokenRow.access_token
    /\ Len(retry.calls) = 2 =>
           /\ retry.calls[1].error # Null
           /\ retry.calls[1].error.status \in {401, 403}
           /\ retry.refreshes = 1
           /\ retry.calls[2].token = Refreshed(retry.tokenRow).access_token
    /\ retry.refreshes = 1 =>
           /\ Len(retry.calls) >= 1
           /\ retry.calls[1].error # Null
           /\ retry.calls[1].error.status \in {401, 403}
    /\ (/\ Len(retry.calls) = 1
        /\ retry.calls[1].error # Null
        /\ retry.calls[1].error.status \notin {401, 403}) =>
           /\ retry.phase = "thrown"
           /\ retry.error = retry.calls[1].error
           /\ retry.refreshes = 0
    /\ (Len(retry.calls) = 2 /\ retry.calls[2].error # Null) =>
           /\ retry.phase = "thrown"
           /\ retry.error = retry.calls[2].error
    /\ retry.phase = "returned" =>
           /\ retry.calls[Len(retry.calls)].error = Null
           /\ retry.out = IF retry.refreshes = 1
                          THEN Refreshed(retry.tokenRow)
                          ELSE retry.tokenRow
           /\ retry.refreshes = 1 <=> Len(retry.calls) = 2

\* getActivity failed with 403, the tokens were refreshed, the second run
\* succeeded and the refreshed row was returned
C23_Witness ==
    /\ retry.op = "getActivity"
    /\ retry.phase = "returned"
    /\ retry.tokenRow = TokenRow(1, 1, Now + Skew + 1)
    /\ retry.calls = <<[token |-> 1, error |-> Err("AxiosError", 403)],
                       [token |-> 2, error |-> Null]>>
    /\ retry.refreshes = 1
    /\ retry.out = TokenRow(2, 2, Now + 21600)

(***************************************************************************)
(* Properties of the OAuth state and authCallback (SpecOAuth)              *)
(***************************************************************************)
\* the requests for which validateAndConsumeState returned true
Consumers == {i \in DOMAIN callbacks : callbacks[i].valid = "true"}

\* C24: for a state saved once, over every interleaving of concurrent
\* calls of validateAndConsumeState at most one call returns true, a call
\* made after a call returned true returns false, and a call returns true
\* only for the state that was saved and only when the age it computed is
\* at most ten minutes.
C24_StateIsSingleUse ==
    /\ Cardinality(Consumers) <= 1
    /\ \A i \in Consumers :
           /\ ~callbacks[i].afterTrue
           /\ callbacks[i].state = "s"
           /\ opc = "saved"
           /\ callbacks[i].age <= StateLifetime
           /\ stateTable = Null

\* two requests with the saved state both read its row; the first deleted
\* it and got true, the second got false
C24_Witness ==
    /\ Len(callbacks) = 2
    /\ callbacks[1].state = "s" /\ callbacks[2].state = "s"
    /\ callbacks[1].valid = "true"
    /\ callbacks[2].valid = "false"
    /\ callbacks[2].timestamp = callbacks[1].timestamp
    /\ callbacks[2].age <= StateLifetime
    /\ ~callbacks[2].afterTrue

\* trace starts with the calls in front
StartsWith(trace, front) ==
    Len(trace) >= Len(front) /\ SubSeq(trace, 1, Len(front)) = front

\* C25: authCallback exchanges the code and saves tokens only after, in
\* this order, the state parameter was present, validateAndConsumeState
\* returned true for it and the code parameter was present; a request
\* without state gets 400, with an invalid or expired state 403, without
\* code 400, and none of these exchanges a code or saves tokens.
C25_StateBeforeCode ==
    \A i \in DOMAIN callbacks :
        LET c == callbacks[i]
            Made(call) == \E k \in 1..Len(c.trace) : c.trace[k] = call
        IN  /\ Made("exchange") =>
                   /\ c.state # "" /\ c.valid = "true" /\ c.code # ""
                   /\ StartsWith(c.trace,
                          <<"state", "validate", "code", "exchange">>)
            /\ Made("saveTokens") =>
                   c.trace = <<"state", "validate", "code", "exchange",
                               "saveTokens">>
            /\ (c.pc # "start" /\ c.state = "") =>
                   c.pc = "done" /\ c.status = 400 /\ c.trace = <<>>
            /\ c.valid = "false" =>
                   /\ c.pc = "done" /\ c.status = 403
                   /\ c.trace = <<"state", "validate">>
            /\ (c.valid = "true" /\ c.code = "") =>
                   /\ c.pc = "done" /\ c.status = 400
                   /\ c.trace = <<"state", "validate">>

\* one request with the saved state and a code saved tokens; another with
\* the same state, made afterwards, got 403
C25_Witness ==
    /\ Len(callbacks) = 2
    /\ callbacks[1].pc = "done" /\ callbacks[1].status = 200
    /\ callbacks[1].trace = <<"state", "validate", "code", "exchange",
                              "saveTokens">>
    /\ callbacks[2] = [Callback("s", "c") EXCEPT
                           !.pc = "done", !.valid = "false", !.status = 403,
                           !.afterTrue = TRUE,
                           !.trace = <<"state", "validate">>]
    /\ tokenTable # Null

(***************************************************************************)
(* Properties of preDetectEasyRun (SpecPreDetect)                          *)
(***************************************************************************)
\* C26: preDetectEasyRun answers isEasyRun = true only for an activity with
\* at least one lap, max_heartrate at most 165, max_speed at most 4.6 m/s,
\* no lap shorter than 150 m, no lap faster than 4.0 m/s on average and no
\* two consecutive laps whose average speeds differ by more than 1.5 m/s;
\* without laps it answers isEasyRun = false with confidence 0.
C26_EasyOnlyWithoutIntervalSigns ==
    qpc = "detected" =>
        /\ preDetection.isEasyRun =>
               /\ HasLaps(preActivity) /\ Len(preActivity.laps) >= 1
               /\ preActivity.max_heartrate <= 165
               /\ preActivity.max_speed <= 460
               /\ \A k \in 1..Len(preActivity.laps) :
                      /\ preActivity.laps[k].distance >= 150
                      /\ preActivity.laps[k].average_speed <= 400
               /\ \A k \in 2..Len(preActivity.laps) :
                      Abs(preActivity.laps[k].average_speed
                          - preActivity.laps[k - 1].average_speed) <= 150
        /\ (~HasLaps(preActivity) \/ Len(preActivity.laps) = 0) =>
               /\ ~preDetection.isEasyRun
               /\ preDetection.confidence = 0

(***************************************************************************)
(* Properties of the fallback of analyzeWorkout (SpecAnalyze)              *)
(***************************************************************************)
\* analyzeWorkout returned after the loop, from the result of a calculator
ReturnedByFallback ==
    /\ Analysed /\ analysis.kind = "return"
    /\ calculationResult # Null
    /\ analysis = AfterLoop(version, activityIn, calculationResult)

\* m carries the fields of BaseWorkoutMetrics and none of
\* RepetitionWorkoutMetrics
IsContinuousMetrics(m) ==
    /\ {"distance_miles", "pace_seconds_per_mile", "average_heartrate"}
           \subseteq DOMAIN m
    /\ {"sets", "reps_per_set", "work_distance_meters"} \cap DOMAIN m = {}

\* C27: a result returned by the fallback after the loop is well-formed:
\* type T with structure interval and the output of calculateIntervalMetrics
\* in interval_metrics, or type E with continuous metrics (distance_miles,
\* pace_seconds_per_mile, average_heartrate) in metrics; the output of
\* calculateRepetitionStructure is never returned in metrics or under E.
C27_FallbackIsWellFormed ==
    ReturnedByFallback =>
        LET r == analysis.result
        IN  \/ /\ r.type = "T" /\ r.structure = "interval"
               /\ r.interval_metrics = calculationResult
               /\ "interval_count" \in DOMAIN calculationResult
               /\ r.metrics = Null
            \/ /\ r.type = "E"
               /\ r.metrics # Null
               /\ IsContinuousMetrics(r.metrics)

(***************************************************************************)
(* Further properties of calculateRepetitionStructure (SpecRep)            *)
(***************************************************************************)
\* C28: every result returned by calculateRepetitionStructure has
\* sets >= 1 and reps_per_set >= 1.
C28_AtLeastOneSetAndRep ==
    (cpc = "done" /\ outcome.kind = "return") =>
        /\ outcome.sets >= 1
        /\ outcome.reps_per_set >= 1

\* C29: a result describes no more work than was run: sets * reps_per_set
\* is at most the number of laps classified as Work.
C29_NoMoreWorkThanRun ==
    (cpc = "done" /\ outcome.kind = "return") =>
        outcome.sets * outcome.reps_per_set <= Len(workLaps)

(***************************************************************************)
(* Further properties of roundToStandardDistance (SpecRound)               *)
(***************************************************************************)
WorkResults == {200, 300, 400, 500, 600}

\* C30: roundToStandardDistance is idempotent and produces only hundreds:
\* for every whole distance m of at least 1 metre, round(m) is a multiple of
\* 100 and round(round(m)) = round(m); for every work-lap distance
\* (180 <= m <= 600) the result is one of 200, 300, 400, 500, 600.
C30_IdempotentHundreds ==
    /\ (rpc \in {"rounded", "again"} /\ meters.den = 1 /\ meters.num >= 1) =>
           rounded % 100 = 0
    /\ (rpc = "again" /\ meters.den = 1 /\ meters.num >= 1) =>
           roundedAgain = rounded
    /\ (rpc \in {"rounded", "again"}
           /\ 180 * meters.den <= meters.num
           /\ meters.num <= 600 * meters.den) =>
           rounded \in WorkResults

\* 471 m, more than 15% from 400, became 500, which is not on the ladder,
\* and 500 was rounded again
C30_Witness ==
    /\ rpc = "again" /\ meters = Whole(471)
    /\ rounded = 500 /\ roundedAgain = 500

=============================================================================
